---- MODULE Spec2Model ----
(***************************************************************************)
(* Model of the ResumeForge front end (Next.js/React) and of the workflow  *)
(* API it talks to.  The front-end handlers are translated from the        *)
(* TypeScript sources; the workflow API (FastAPI back end) is not part of  *)
(* the sources and is modelled from the written specification.             *)
(***************************************************************************)
EXTENDS Integers, Sequences, FiniteSets, TLC

(***************************************************************************)
(* Bounds                                                                  *)
(***************************************************************************)
MaxResumes == 2
MaxAttempts == 2
MaxJobs == 2
MaxInflight == 2
MaxFiles == 2
MaxAnalyses == 2

(***************************************************************************)
(* Files offered to the upload widgets                                     *)
(***************************************************************************)
maxSize == 10 * 1024 * 1024

allowedTypes == {"application/pdf",
                 "application/vnd.openxmlformats-officedocument.wordprocessingml.document",
                 "application/msword", "text/plain"}

allowedExtensions == {"pdf", "docx", "doc", "txt"}

\* file.type values offered: an allowed type and a disallowed one
MimeTypes == {"application/pdf", "image/png"}

\* file.name values offered, as the list of segments between dots
FileNames == {<<"cv", "PDF">>, <<"cv", "exe">>}

\* file.size values offered: the largest accepted size and the first rejected one
Sizes == {maxSize, maxSize + 1}

Files == [type : MimeTypes, name : FileNames, size : Sizes]

NoFile == [type |-> "", name |-> <<>>, size |-> 0]

\* String.prototype.toLowerCase on the name segments in use
toLowerCase(s) == IF s = "PDF" THEN "pdf" ELSE s

\* file.name.split('.').pop()?.toLowerCase()
extensionOf(file) == toLowerCase(file.name[Len(file.name)])

null == "null"

(***************************************************************************)
(* State                                                                   *)
(***************************************************************************)
VARIABLES
  \* ResumeUpload component (useState hooks) and its timers
  selectedFile, isUploading, uploadProgress, uploadStatus, errorMessage,
  myInterval,        \* the progressInterval of the running handleUpload is active
  strayIntervals,    \* progress intervals of failed uploads that were never cleared
  completeTimeouts,  \* pending setTimeout(onUploadComplete, 1500) callbacks
  \* ResumesPage
  showUploadModal, uploadedResumes,
  \* browser local storage
  current_user_id,
  \* requests and responses in flight, and the position of the handler serving each
  net,
  \* document store (resume records, primary flags) and blob store
  records, primary, blobs, nextId,
  \* history: the files records were created for, and the handleUpload calls
  \* counted by how they ended, with the calls of onUploadComplete
  storedFiles, uploadLog,
  \* AddJobPage (useState hooks); error and currentUserId are prefixed with the page
  jobDescription, addJobAnalyzing, addJobError, analysisResult, addJobUserId,
  \* document store: job records, the next job id, and (history) the Analysis
  \* Normalizer runs that succeeded per job and the add-job submit last answered
  jobs, nextJobId, normalizerRuns, submitLog,
  \* the jobs whose raw analysis response has a backup copy (data/jd_*.json), and
  \* the Analysis records of the document store, oldest first
  backups, analyses,
  \* Dashboard: its state, whether its mount effect has run, and the JD-file
  \* listing its fallback received
  dashboardUserId, dashboardData, dashboardJobs, dashboardLoading, dashboardError,
  dashboardMounted, files,
  \* Dashboard: the jobs selected for deletion, and its delete mode
  selectedJobs, isDeleting, showDeleteMode,
  \* CreateResumePage (the wizard) and the local storage keys it writes
  currentStep, jdText, resumeFile, jdAnalysis, resumeAnalysis, rewriteApproach,
  wizardAnalyzing, wizardError, current_job_id, current_analysis_id,
  \* history: the job id the last successful createJobForWizard of this wizard
  \* session returned
  sessionJobId,
  \* ResumeCard and its ResumePreviewModal, and the requests each has sent since
  \* the last user action on the card
  isHovered, showPreview, thumbnailUrl, thumbnailLoaded, isLoadingThumbnail,
  previewUrl, modalLoading, modalError, sinceAction,
  \* JobDetailPage: its route parameter and state; and what the last
  \* handleDownload of a resume card ended with
  detailJobId, detailJob, detailLoading, detailError, downloadLog,
  \* JDAnalyzerPage (useState hooks), prefixed with the page
  analyzerJdText, analyzerAnalysis, analyzerAnalyzing, analyzerError,
  \* ResumeAnalyzerPage and ResumePage (useState hooks), prefixed with the page
  resumeAnalyzerFile, resumeAnalyzerAnalysis, resumeAnalyzerAnalyzing, resumeAnalyzerError,
  resumePageFile, resumePageAnalysis, resumePageAnalyzing, resumePageError,
  \* local storage key user_data; Header (currentUser, and whether its mount
  \* effect has run); UserOnboarding (useState hooks, prefixed) and, as history,
  \* how the calls of its last submit ended and what it then did, in order
  user_data, headerUser, headerMounted,
  onboardingEmail, onboardingLoading, onboardingError, onboardingLog

uploadVars == <<selectedFile, isUploading, uploadProgress, uploadStatus, errorMessage,
                myInterval, strayIntervals, completeTimeouts, showUploadModal,
                uploadLog>>
storeVars == <<records, primary, blobs, nextId, storedFiles>>
addJobVars == <<jobDescription, addJobAnalyzing, addJobError, analysisResult, addJobUserId,
                submitLog>>
recordVars == <<backups, analyses>>
jobVars == <<jobs, nextJobId, normalizerRuns, recordVars>>
resumeSide == <<uploadVars, uploadedResumes, storeVars>>
jobSide == <<addJobVars, jobVars>>
\* what the resume pages and endpoints leave alone, and what the job ones do
deleteModeVars == <<selectedJobs, isDeleting, showDeleteMode>>
dashboardVars == <<dashboardUserId, dashboardData, dashboardJobs, dashboardLoading,
                   dashboardError, dashboardMounted, files, deleteModeVars>>
wizardVars == <<currentStep, jdText, resumeFile, jdAnalysis, resumeAnalysis, rewriteApproach,
                wizardAnalyzing, wizardError, current_job_id, current_analysis_id,
                sessionJobId>>
cardVars == <<isHovered, showPreview, thumbnailUrl, thumbnailLoaded, isLoadingThumbnail>>
modalVars == <<previewUrl, modalLoading, modalError>>
previewSide == <<cardVars, modalVars, sinceAction>>
detailVars == <<detailJobId, detailJob, detailLoading, detailError>>
fetchSide == <<detailVars, downloadLog>>
analyzerVars == <<analyzerJdText, analyzerAnalysis, analyzerAnalyzing, analyzerError>>
resumeAnalyzerVars == <<resumeAnalyzerFile, resumeAnalyzerAnalysis, resumeAnalyzerAnalyzing,
                        resumeAnalyzerError>>
resumePageVars == <<resumePageFile, resumePageAnalysis, resumePageAnalyzing, resumePageError>>
\* the pages that share nothing but the network with the others
accountVars == <<user_data, headerUser, headerMounted, onboardingEmail, onboardingLoading,
                 onboardingError, onboardingLog>>
pageSide == <<resumeAnalyzerVars, resumePageVars, accountVars>>
beyondResumes == <<jobSide, dashboardVars, wizardVars, previewSide, fetchSide,
                  analyzerVars, pageSide>>
beyondJobs == <<resumeSide, dashboardVars, wizardVars, previewSide, fetchSide,
                  analyzerVars, pageSide>>
beyondDashboard == <<resumeSide, jobSide, wizardVars, previewSide, fetchSide,
                  analyzerVars, pageSide>>
beyondSession == <<resumeSide, addJobVars, dashboardVars, previewSide, fetchSide,
                   analyzerVars, pageSide>>
beyondWizard == <<beyondSession, sessionJobId>>
beyondPreview == <<resumeSide, jobSide, dashboardVars, wizardVars, fetchSide, current_user_id,
                   analyzerVars, pageSide>>
beyondFetch == <<resumeSide, jobSide, dashboardVars, wizardVars, previewSide, current_user_id,
                 analyzerVars, pageSide>>
beyondAnalyzer == <<resumeSide, jobSide, dashboardVars, wizardVars, previewSide, fetchSide,
                    current_user_id, pageSide>>
beyondPages == <<resumeSide, jobSide, dashboardVars, wizardVars, previewSide, fetchSide,
                 analyzerVars, accountVars, current_user_id>>
beyondAccount == <<resumeSide, jobSide, dashboardVars, wizardVars, previewSide, fetchSide,
                   analyzerVars, resumeAnalyzerVars, resumePageVars>>
vars == <<resumeSide, jobSide, dashboardVars, wizardVars, previewSide, fetchSide,
          analyzerVars, pageSide, current_user_id, net>>

ResumeIds == 1..MaxResumes
Tabs == {"tab1", "tab2"}
Slots == 1..MaxInflight

NoMsg == [op |-> "none", pc |-> "idle", file |-> NoFile, rid |-> 0, snap |-> {},
          owner |-> "none", body |-> ""]

HasFreeSlot == \E s \in Slots : net[s] = NoMsg
FreeSlot == CHOOSE s \in Slots : net[s] = NoMsg /\ \A t \in Slots : t < s => net[t] # NoMsg

JobIds == 1..MaxJobs

\* a job record of the document store; NoJob where no record is stored
NoJob == [status |-> "absent", analysis |-> "", deleted |-> FALSE]

\* analysisResult of the add-job page: null, or the response body
NoResult == [job_id |-> 0, jd_analysis_data |-> ""]

\* a property missing from a JSON object
undefined == "undefined"

\* a || b on strings
orElse(a, b) == IF a \in {undefined, null, ""} THEN b ELSE a

\* items of a JD-file listing: job_title and company_name are optional
JdItems == [job_title : {undefined, "Engineer"}, company_name : {undefined, "Acme"}]
JdListings == UNION {[1..n -> JdItems] : n \in 0..MaxFiles}

\* requests sent since the last user action: by the card for its thumbnail
\* (preview URL, download URL), by the modal, and whether the thumbnail's
\* preview request has failed; acted tells whether there was a user action yet
NoSends == [thumbPreview |-> 0, thumbDownload |-> 0, modalPreview |-> 0,
            previewFailed |-> FALSE, acted |-> FALSE]

\* the log as a user action on the card starts it
Acted == [NoSends EXCEPT !.acted = TRUE]

\* the id of a job route: a database id (n), or a JD-file id such as jd_008
\* (the prefix jd_ and n); NoRoute while no job page is open.  The routes in
\* use are those of the first job and of the first JD file.
RouteIds == [prefix : {"", "jd_"}, n : {1}]
NoRoute == [prefix |-> "", n |-> 0]
\* useState<JobDetail | null>(null): the page has no job
NoJobDetail == [job_id |-> 0, job_title |-> "", company_name |-> ""]

\* the history of a submit of the onboarding form that has not called anything
NoCalls == [createUser |-> "none", getUser |-> "none", effects |-> <<>>]

Init ==
  /\ selectedFile = NoFile
  /\ isUploading = FALSE
  /\ uploadProgress = 0
  /\ uploadStatus = "idle"
  /\ errorMessage = ""
  /\ myInterval = FALSE
  /\ strayIntervals = 0
  /\ completeTimeouts = 0
  /\ showUploadModal = FALSE
  /\ uploadedResumes = [t \in Tabs |-> [ids |-> {}, prim |-> {}]]
  /\ current_user_id = "u1"
  /\ net = [s \in Slots |-> NoMsg]
  /\ records = {}
  /\ primary = {}
  /\ blobs = {}
  /\ nextId = 1
  /\ storedFiles = {}
  /\ uploadLog = [started |-> 0, rejected |-> 0, ok |-> 0, failed |-> 0, complete |-> 0]
  /\ jobDescription = ""
  /\ addJobAnalyzing = FALSE
  /\ addJobError = null
  /\ analysisResult = NoResult
  /\ addJobUserId = null
  /\ jobs = [j \in JobIds |-> NoJob]
  /\ nextJobId = 1
  /\ normalizerRuns = [j \in JobIds |-> 0]
  /\ backups = {}
  /\ analyses = <<>>
  /\ submitLog = [kind |-> "none", job_id |-> 0]
  /\ dashboardUserId = null
  /\ dashboardData = null
  /\ dashboardJobs = <<>>
  /\ dashboardLoading = TRUE
  /\ dashboardError = null
  /\ dashboardMounted = FALSE
  /\ selectedJobs = {}
  /\ isDeleting = FALSE
  /\ showDeleteMode = FALSE
  /\ files = <<>>
  /\ currentStep = 1
  /\ jdText = ""
  /\ resumeFile = NoFile
  /\ jdAnalysis = null
  /\ resumeAnalysis = null
  /\ rewriteApproach = null
  /\ wizardAnalyzing = FALSE
  /\ wizardError = null
  /\ current_job_id = 0
  /\ sessionJobId = 0
  /\ current_analysis_id = 0
  /\ isHovered = FALSE
  /\ showPreview = FALSE
  /\ thumbnailUrl = ""
  /\ thumbnailLoaded = FALSE
  /\ isLoadingThumbnail = FALSE
  /\ previewUrl = ""
  /\ modalLoading = FALSE
  /\ modalError = ""
  /\ resumeAnalyzerFile = NoFile
  /\ resumeAnalyzerAnalysis = NoFile
  /\ resumeAnalyzerAnalyzing = FALSE
  /\ resumeAnalyzerError = null
  /\ resumePageFile = NoFile
  /\ resumePageAnalysis = NoFile
  /\ resumePageAnalyzing = FALSE
  /\ resumePageError = null
  /\ user_data = "u1"
  /\ headerUser = null
  /\ headerMounted = FALSE
  /\ onboardingEmail = ""
  /\ onboardingLoading = FALSE
  /\ onboardingError = null
  /\ onboardingLog = NoCalls
  /\ sinceAction = NoSends
  /\ detailJobId = NoRoute
  /\ detailJob = NoJobDetail
  /\ detailLoading = TRUE
  /\ detailError = null
  /\ downloadLog = "none"
  /\ analyzerJdText = ""
  /\ analyzerAnalysis = null
  /\ analyzerAnalyzing = FALSE
  /\ analyzerError = null

(***************************************************************************)
(* ResumeUpload.tsx                                                        *)
(***************************************************************************)
\* validateFile with the size check left out
validateFile_NoSizeCheck(file) ==
  IF /\ file.type \notin allowedTypes
     /\ (extensionOf(file) = "" \/ extensionOf(file) \notin allowedExtensions)
  THEN "Invalid file type"
  ELSE null

\* validateFile: the error message, or null for an acceptable file
validateFile(file) ==
  IF /\ file.type \notin allowedTypes
     /\ (extensionOf(file) = "" \/ extensionOf(file) \notin allowedExtensions)
  THEN "Invalid file type"
  ELSE IF file.size > maxSize THEN "File too large" ELSE null

\* handleDrop / handleFileInput -> handleFileSelect; the drop zone is rendered
\* only while no file is selected and the status is idle
handleFileSelect(file) ==
  /\ showUploadModal
  /\ selectedFile = NoFile /\ uploadStatus = "idle"
  /\ LET error == validateFile(file) IN
       IF error # null
       THEN /\ errorMessage' = error
            /\ uploadStatus' = "error"
            /\ UNCHANGED selectedFile
       ELSE /\ selectedFile' = file
            /\ errorMessage' = ""
            /\ uploadStatus' = "idle"
  /\ UNCHANGED <<isUploading, uploadProgress, myInterval, strayIntervals, completeTimeouts,
                 showUploadModal, uploadLog, uploadedResumes, current_user_id,
                 net, storeVars>>
  /\ UNCHANGED beyondResumes

\* the request userService.uploadResume(currentUserId, selectedFile) puts on the wire
uploadRequest(file) ==
  [op |-> "upload", pc |-> "sent", file |-> file, rid |-> 0, snap |-> {}, owner |-> "upload",
   body |-> ""]

\* handleUpload up to its await: the Upload button is rendered while a file is
\* selected and the status is idle, and is disabled while isUploading
handleUpload ==
  /\ showUploadModal
  /\ selectedFile # NoFile /\ uploadStatus = "idle" /\ ~isUploading
  /\ uploadLog.started + uploadLog.rejected < MaxAttempts
  /\ IF current_user_id = null
     THEN /\ errorMessage' = "Please log in to upload resumes"
          /\ uploadStatus' = "error"
          /\ uploadLog' = [uploadLog EXCEPT !.rejected = @ + 1]
          /\ UNCHANGED <<isUploading, uploadProgress, myInterval, net>>
     ELSE /\ HasFreeSlot
          /\ isUploading' = TRUE
          /\ uploadStatus' = "uploading"
          /\ uploadProgress' = 0
          /\ myInterval' = TRUE
          /\ net' = [net EXCEPT ![FreeSlot] = uploadRequest(selectedFile)]
          /\ uploadLog' = [uploadLog EXCEPT !.started = @ + 1]
          /\ UNCHANGED errorMessage
  /\ UNCHANGED <<selectedFile, strayIntervals, completeTimeouts, showUploadModal,
                 uploadedResumes, current_user_id, storeVars>>
  /\ UNCHANGED beyondResumes

\* one firing of the 200 ms progress interval of the running upload
progressTick ==
  /\ myInterval
  /\ IF uploadProgress >= 90
     THEN myInterval' = FALSE /\ UNCHANGED uploadProgress
     ELSE uploadProgress' = uploadProgress + 10 /\ UNCHANGED myInterval
  /\ UNCHANGED <<selectedFile, isUploading, uploadStatus, errorMessage, strayIntervals,
                 completeTimeouts, showUploadModal, uploadLog, uploadedResumes,
                 current_user_id, net, storeVars>>
  /\ UNCHANGED beyondResumes

\* one firing of an interval left behind by a failed upload (the catch branch
\* does not clear it)
strayTick ==
  /\ strayIntervals > 0
  /\ IF uploadProgress >= 90
     THEN strayIntervals' = strayIntervals - 1 /\ UNCHANGED uploadProgress
     ELSE uploadProgress' = uploadProgress + 10 /\ UNCHANGED strayIntervals
  /\ UNCHANGED <<selectedFile, isUploading, uploadStatus, errorMessage, myInterval,
                 completeTimeouts, showUploadModal, uploadLog, uploadedResumes,
                 current_user_id, net, storeVars>>
  /\ UNCHANGED beyondResumes

\* handleUpload after its await, the request having succeeded
handleUploadOk(s) ==
  /\ net[s].op = "upload" /\ net[s].pc = "ok"
  /\ net' = [net EXCEPT ![s] = NoMsg]
  /\ completeTimeouts' = completeTimeouts + 1
  /\ uploadLog' = [uploadLog EXCEPT !.ok = @ + 1]
  /\ IF net[s].owner = "upload"
     THEN /\ myInterval' = FALSE
          /\ uploadProgress' = 100
          /\ uploadStatus' = "success"
          /\ isUploading' = FALSE
     ELSE UNCHANGED <<myInterval, uploadProgress, uploadStatus, isUploading>>
  /\ UNCHANGED <<selectedFile, errorMessage, strayIntervals, showUploadModal,
                 uploadedResumes, current_user_id, storeVars>>
  /\ UNCHANGED beyondResumes

\* handleUpload whose catch branch sends the request again
handleUploadFailed_Retries(s) ==
  /\ net[s].op = "upload" /\ net[s].pc = "err"
  /\ net' = [net EXCEPT ![s] = [@ EXCEPT !.pc = "sent"]]
  /\ uploadLog' = [uploadLog EXCEPT !.failed = @ + 1]
  /\ UNCHANGED <<selectedFile, isUploading, uploadProgress, uploadStatus, errorMessage,
                 myInterval, strayIntervals, completeTimeouts, showUploadModal,
                 uploadedResumes, current_user_id, storeVars>>
  /\ UNCHANGED beyondResumes

\* handleUpload after its await, the request having failed (catch, finally)
handleUploadFailed(s) ==
  /\ net[s].op = "upload" /\ net[s].pc = "err"
  /\ net' = [net EXCEPT ![s] = NoMsg]
  /\ uploadLog' = [uploadLog EXCEPT !.failed = @ + 1]
  /\ IF net[s].owner = "upload"
     THEN /\ errorMessage' = "Upload failed"
          /\ uploadStatus' = "error"
          /\ isUploading' = FALSE
          /\ myInterval' = FALSE
          /\ strayIntervals' = strayIntervals + (IF myInterval THEN 1 ELSE 0)
     ELSE UNCHANGED <<errorMessage, uploadStatus, isUploading, myInterval, strayIntervals>>
  /\ UNCHANGED <<selectedFile, uploadProgress, completeTimeouts, showUploadModal,
                 uploadedResumes, current_user_id, storeVars>>
  /\ UNCHANGED beyondResumes

\* resetUpload: the X and Cancel buttons (file selected, idle) and Try Again (error)
resetUpload ==
  /\ showUploadModal
  /\ (selectedFile # NoFile /\ uploadStatus = "idle") \/ uploadStatus = "error"
  /\ selectedFile' = NoFile
  /\ uploadStatus' = "idle"
  /\ uploadProgress' = 0
  /\ errorMessage' = ""
  /\ UNCHANGED <<isUploading, myInterval, strayIntervals, completeTimeouts, showUploadModal,
                 uploadLog, uploadedResumes, current_user_id, net, storeVars>>
  /\ UNCHANGED beyondResumes

(***************************************************************************)
(* ResumesPage: the upload modal and the resume lists                      *)
(***************************************************************************)
\* what GET /api/users/{id}/resumes/uploaded returns
listing == [ids |-> records, prim |-> primary \cap records]

\* a fresh ResumeUpload instance (the useState initial values); the timers of
\* an earlier instance no longer reach any state
mountUpload ==
  /\ selectedFile' = NoFile
  /\ isUploading' = FALSE
  /\ uploadProgress' = 0
  /\ uploadStatus' = "idle"
  /\ errorMessage' = ""
  /\ myInterval' = FALSE
  /\ strayIntervals' = 0

\* an upload still in flight loses its component when the modal is unmounted
orphaned == [s \in Slots |-> IF net[s].owner = "upload"
                             THEN [net[s] EXCEPT !.owner = "orphan"] ELSE net[s]]

\* the Upload buttons of the page: setShowUploadModal(true)
openUploadModal ==
  /\ ~showUploadModal
  /\ showUploadModal' = TRUE
  /\ mountUpload
  /\ UNCHANGED <<completeTimeouts, uploadLog, uploadedResumes, current_user_id,
                 net, storeVars>>
  /\ UNCHANGED beyondResumes

\* onClose of the modal, were the pending completion callbacks cancelled with
\* the component
onClose_CancelsTimeout ==
  /\ showUploadModal
  /\ showUploadModal' = FALSE
  /\ mountUpload
  /\ net' = orphaned
  /\ completeTimeouts' = 0
  /\ UNCHANGED <<uploadLog, uploadedResumes, current_user_id, storeVars>>
  /\ UNCHANGED beyondResumes

\* onClose of the modal (header X, Done): setShowUploadModal(false)
onClose ==
  /\ showUploadModal
  /\ showUploadModal' = FALSE
  /\ mountUpload
  /\ net' = orphaned
  /\ UNCHANGED <<completeTimeouts, uploadLog, uploadedResumes, current_user_id,
                 storeVars>>
  /\ UNCHANGED beyondResumes

\* the 1500 ms timeout fires onUploadComplete -> handleUploadComplete: close the
\* modal and reload the lists
handleUploadComplete ==
  /\ completeTimeouts > 0
  /\ completeTimeouts' = completeTimeouts - 1
  /\ showUploadModal' = FALSE
  /\ mountUpload
  /\ net' = orphaned
  /\ uploadedResumes' = [uploadedResumes EXCEPT !["tab1"] = listing]
  /\ uploadLog' = [uploadLog EXCEPT !.complete = @ + 1]
  /\ UNCHANGED <<current_user_id, storeVars>>
  /\ UNCHANGED beyondResumes

(***************************************************************************)
(* Workflow API: resumes (modelled from the written specification)         *)
(***************************************************************************)
\* POST /api/users/{id}/resumes/upload: one blob and one record, or a failure
\* that stores nothing
serveUpload(s) ==
  /\ net[s].op = "upload" /\ net[s].pc = "sent"
  /\ \/ /\ nextId <= MaxResumes
        /\ blobs' = blobs \cup {nextId}
        /\ records' = records \cup {nextId}
        /\ nextId' = nextId + 1
        /\ storedFiles' = storedFiles \cup {net[s].file}
        /\ net' = [net EXCEPT ![s] = [@ EXCEPT !.pc = "ok", !.rid = nextId]]
        /\ UNCHANGED primary
     \/ /\ net' = [net EXCEPT ![s] = [@ EXCEPT !.pc = "err"]]
        /\ UNCHANGED storeVars
  /\ UNCHANGED <<uploadVars, uploadedResumes, current_user_id>>
  /\ UNCHANGED beyondResumes

\* POST /api/resumes/{id}/set-primary, first store access: look the resume up and
\* query the user's resumes that carry the flag
servePrimaryQuery(s) ==
  /\ net[s].op = "setPrimary" /\ net[s].pc = "sent"
  /\ net' = [net EXCEPT ![s] =
               IF net[s].rid \in records
               THEN [@ EXCEPT !.pc = "clear", !.snap = primary \ {net[s].rid}]
               ELSE [@ EXCEPT !.pc = "err"]]
  /\ UNCHANGED <<uploadVars, uploadedResumes, current_user_id, storeVars>>
  /\ UNCHANGED beyondResumes

\* second store access: clear the flag on the resumes the query returned
servePrimaryClear(s) ==
  /\ net[s].op = "setPrimary" /\ net[s].pc = "clear"
  /\ primary' = primary \ net[s].snap
  /\ net' = [net EXCEPT ![s] = [@ EXCEPT !.pc = "set"]]
  /\ UNCHANGED <<uploadVars, uploadedResumes, current_user_id, records, blobs, nextId, storedFiles>>
  /\ UNCHANGED beyondResumes

\* third store access: set the flag on the resume, and answer
servePrimarySet(s) ==
  /\ net[s].op = "setPrimary" /\ net[s].pc = "set"
  /\ IF net[s].rid \in records
     THEN /\ primary' = primary \cup {net[s].rid}
          /\ net' = [net EXCEPT ![s] = [@ EXCEPT !.pc = "ok"]]
     ELSE /\ net' = [net EXCEPT ![s] = [@ EXCEPT !.pc = "err"]]
          /\ UNCHANGED primary
  /\ UNCHANGED <<uploadVars, uploadedResumes, current_user_id, records, blobs, nextId, storedFiles>>
  /\ UNCHANGED beyondResumes

\* the first access of a delete that leaves the blob in the blob store
serveDeleteBlob_KeepsBlob(s) ==
  /\ net[s].op = "deleteResume" /\ net[s].pc = "sent"
  /\ net' = [net EXCEPT ![s] = [@ EXCEPT !.pc = IF net[s].rid \in records
                                                THEN "record" ELSE "err"]]
  /\ UNCHANGED <<uploadVars, uploadedResumes, current_user_id, storeVars>>
  /\ UNCHANGED beyondResumes

\* DELETE /api/resumes/{id}, first access: look the resume up and delete its blob
serveDeleteBlob(s) ==
  /\ net[s].op = "deleteResume" /\ net[s].pc = "sent"
  /\ IF net[s].rid \in records
     THEN /\ blobs' = blobs \ {net[s].rid}
          /\ net' = [net EXCEPT ![s] = [@ EXCEPT !.pc = "record"]]
     ELSE /\ net' = [net EXCEPT ![s] = [@ EXCEPT !.pc = "err"]]
          /\ UNCHANGED blobs
  /\ UNCHANGED <<uploadVars, uploadedResumes, current_user_id, records, primary, nextId, storedFiles>>
  /\ UNCHANGED beyondResumes

\* second access: delete the record (and with it its primary flag), and answer
serveDeleteRecord(s) ==
  /\ net[s].op = "deleteResume" /\ net[s].pc = "record"
  /\ records' = records \ {net[s].rid}
  /\ primary' = primary \ {net[s].rid}
  /\ net' = [net EXCEPT ![s] = [@ EXCEPT !.pc = "ok"]]
  /\ UNCHANGED <<uploadVars, uploadedResumes, current_user_id, blobs, nextId, storedFiles>>
  /\ UNCHANGED beyondResumes

(***************************************************************************)
(* Two tabs of the same user on the resumes page (ResumesPage, ResumeCard) *)
(***************************************************************************)
cardRequest(t, op, r) ==
  [op |-> op, pc |-> "sent", file |-> NoFile, rid |-> r, snap |-> {}, owner |-> t,
   body |-> ""]

\* loadResumes: the page reads the list (mount, reload)
loadResumes(t) ==
  /\ uploadedResumes[t] # listing
  /\ uploadedResumes' = [uploadedResumes EXCEPT ![t] = listing]
  /\ UNCHANGED <<uploadVars, current_user_id, net, storeVars>>
  /\ UNCHANGED beyondResumes

\* the upload modal of a tab, reduced to the request it sends for a valid file
tabUpload(t) ==
  /\ HasFreeSlot
  /\ net' = [net EXCEPT ![FreeSlot] =
               [uploadRequest([type |-> "application/pdf", name |-> <<"cv", "PDF">>,
                               size |-> maxSize]) EXCEPT !.owner = t]]
  /\ UNCHANGED <<uploadVars, uploadedResumes, current_user_id, storeVars>>
  /\ UNCHANGED beyondResumes

\* handleSetPrimary up to its await: the menu item is rendered for an uploaded
\* resume that the tab's list shows as not primary
handleSetPrimary(t, r) ==
  /\ r \in uploadedResumes[t].ids /\ r \notin uploadedResumes[t].prim
  /\ HasFreeSlot
  /\ net' = [net EXCEPT ![FreeSlot] = cardRequest(t, "setPrimary", r)]
  /\ UNCHANGED <<uploadVars, uploadedResumes, current_user_id, storeVars>>
  /\ UNCHANGED beyondResumes

\* handleDelete up to its await (the confirm dialog accepted); the button is
\* disabled while the card is deleting
handleDelete(t, r) ==
  /\ r \in uploadedResumes[t].ids
  /\ ~\E s \in Slots : net[s].op = "deleteResume" /\ net[s].owner = t /\ net[s].rid = r
  /\ HasFreeSlot
  /\ net' = [net EXCEPT ![FreeSlot] = cardRequest(t, "deleteResume", r)]
  /\ UNCHANGED <<uploadVars, uploadedResumes, current_user_id, storeVars>>
  /\ UNCHANGED beyondResumes

\* the rest of handleSetPrimary / handleDelete / the tab's upload: on success
\* onDeleted (or onUploadComplete) reloads the list, on failure an alert
cardResponse(s) ==
  /\ net[s].owner \in Tabs
  /\ net[s].pc \in {"ok", "err"}
  /\ net' = [net EXCEPT ![s] = NoMsg]
  /\ uploadedResumes' = IF net[s].pc = "ok"
                        THEN [uploadedResumes EXCEPT ![net[s].owner] = listing]
                        ELSE uploadedResumes
  /\ UNCHANGED <<uploadVars, current_user_id, storeVars>>
  /\ UNCHANGED beyondResumes

(***************************************************************************)
(* AddJobPage                                                              *)
(***************************************************************************)
\* job description texts typed into the form: empty, blank, and a posting
Texts == {"", " ", "JD"}

\* String.prototype.trim on the texts in use
trim(text) == IF text = " " THEN "" ELSE text

\* the mount effect: read the user id from local storage (without one the page
\* redirects and never renders the form)
mountAddJobPage ==
  /\ addJobUserId # current_user_id
  /\ addJobUserId' = current_user_id
  /\ jobDescription' = ""
  /\ addJobAnalyzing' = FALSE
  /\ addJobError' = null
  /\ analysisResult' = NoResult
  /\ submitLog' = [kind |-> "none", job_id |-> 0]
  /\ UNCHANGED <<jobVars, current_user_id, net, beyondJobs>>

\* onChange of the job description textarea
setJobDescription(text) ==
  /\ addJobUserId # null
  /\ jobDescription # text
  /\ jobDescription' = text
  /\ UNCHANGED <<addJobAnalyzing, addJobError, analysisResult, addJobUserId, submitLog,
                 jobVars, current_user_id, net, beyondJobs>>

\* the body of POST /api/jobs
createJobRequest(userId, text) ==
  [op |-> "createJob", pc |-> "sent", file |-> NoFile, rid |-> 0, snap |-> {},
   owner |-> "addJob", body |-> text]

\* handleSubmit up to its await; the submit button is disabled while analyzing
\* or while the description is blank
handleSubmit ==
  /\ addJobUserId # null
  /\ ~addJobAnalyzing /\ trim(jobDescription) # ""
  /\ IF trim(jobDescription) = ""
     THEN /\ addJobError' = "Job description is required"
          /\ UNCHANGED <<addJobAnalyzing, net>>
     ELSE IF addJobUserId = null
     THEN /\ addJobError' = "Please log in to add a job"
          /\ UNCHANGED <<addJobAnalyzing, net>>
     ELSE /\ HasFreeSlot
          /\ addJobAnalyzing' = TRUE
          /\ addJobError' = null
          /\ net' = [net EXCEPT ![FreeSlot] = createJobRequest(addJobUserId, jobDescription)]
  /\ UNCHANGED <<jobDescription, analysisResult, addJobUserId, submitLog, jobVars,
                 current_user_id, beyondJobs>>

\* what the page was answered: an analysis, a job created but not analyzed, or
\* a failure
answerKind(msg) == IF msg.pc = "err" THEN "failed" ELSE msg.body

\* handleSubmit after its await, treating a response without analysis as a failure
handleSubmitDone_NeedsAnalysis(s) ==
  /\ net[s].op = "createJob" /\ net[s].owner = "addJob" /\ net[s].pc \in {"ok", "err"}
  /\ net' = [net EXCEPT ![s] = NoMsg]
  /\ submitLog' = [kind |-> answerKind(net[s]), job_id |-> net[s].rid]
  /\ IF net[s].pc = "ok" /\ net[s].body = "analysis"
     THEN /\ analysisResult' = [job_id |-> net[s].rid, jd_analysis_data |-> "analysis"]
          /\ jobDescription' = ""
          /\ UNCHANGED addJobError
     ELSE /\ addJobError' = "Failed to create job"
          /\ UNCHANGED <<analysisResult, jobDescription>>
  /\ addJobAnalyzing' = FALSE
  /\ UNCHANGED <<addJobUserId, jobVars, current_user_id, beyondJobs>>

\* handleSubmit after its await: an OK response becomes analysisResult and clears
\* the form, anything else becomes the error; finally the analyzing flag is cleared
handleSubmitDone(s) ==
  /\ net[s].op = "createJob" /\ net[s].owner = "addJob" /\ net[s].pc \in {"ok", "err"}
  /\ net' = [net EXCEPT ![s] = NoMsg]
  /\ submitLog' = [kind |-> answerKind(net[s]), job_id |-> net[s].rid]
  /\ IF net[s].pc = "ok"
     THEN /\ analysisResult' = [job_id |-> net[s].rid,
                                jd_analysis_data |-> IF net[s].body = "analysis"
                                                     THEN "analysis" ELSE ""]
          /\ jobDescription' = ""
          /\ UNCHANGED addJobError
     ELSE /\ addJobError' = "Failed to create job"
          /\ UNCHANGED <<analysisResult, jobDescription>>
  /\ addJobAnalyzing' = FALSE
  /\ UNCHANGED <<addJobUserId, jobVars, current_user_id, beyondJobs>>

(***************************************************************************)
(* userService: job deletion and restore                                   *)
(***************************************************************************)
jobRequest(op, j, ids) ==
  [op |-> op, pc |-> "sent", file |-> NoFile, rid |-> j, snap |-> ids, owner |-> "jobs",
   body |-> ""]

\* a caller awaits each of these calls before it makes the next one (the
\* dashboard disables its delete button while isDeleting)
jobCallPending == \E s \in Slots : net[s].owner = "jobs"

\* the add-job page reduced to the request it sends for a description that is
\* not blank
createJobCall ==
  /\ ~jobCallPending /\ HasFreeSlot
  /\ net' = [net EXCEPT ![FreeSlot] = [createJobRequest("u1", "JD") EXCEPT !.owner = "jobs"]]
  /\ UNCHANGED <<jobSide, current_user_id, beyondJobs>>

\* userService.deleteJob(jobId): DELETE /api/jobs/{id}
deleteJob(jobId) ==
  /\ ~jobCallPending /\ HasFreeSlot
  /\ net' = [net EXCEPT ![FreeSlot] = jobRequest("deleteJob", jobId, {})]
  /\ UNCHANGED <<jobSide, current_user_id, beyondJobs>>

\* userService.deleteMultipleJobs(jobIds): POST /api/jobs/delete-multiple
deleteMultipleJobs(jobIds) ==
  /\ ~jobCallPending /\ HasFreeSlot
  /\ net' = [net EXCEPT ![FreeSlot] = jobRequest("deleteMultiple", 0, jobIds)]
  /\ UNCHANGED <<jobSide, current_user_id, beyondJobs>>

\* userService.restoreJob(jobId): POST /api/jobs/{id}/restore
restoreJob(jobId) ==
  /\ ~jobCallPending /\ HasFreeSlot
  /\ net' = [net EXCEPT ![FreeSlot] = jobRequest("restoreJob", jobId, {})]
  /\ UNCHANGED <<jobSide, current_user_id, beyondJobs>>

\* the service call returns response.json(), or throws on a non-OK response
jobResponse(s) ==
  /\ net[s].owner = "jobs" /\ net[s].pc \in {"ok", "err"}
  /\ net' = [net EXCEPT ![s] = NoMsg]
  /\ UNCHANGED <<jobSide, current_user_id, beyondJobs>>

(***************************************************************************)
(* Workflow API: jobs (modelled from the written specification)            *)
(***************************************************************************)
\* soft delete that also discards the stored analysis
softDeleted_DropsAnalysis(job) == [job EXCEPT !.deleted = TRUE, !.analysis = ""]

\* soft delete: the flag is set, the record retained
softDeleted(job) == [job EXCEPT !.deleted = TRUE]

\* restore that reports the job as analyzed
restored_MarksAnalyzed(job) == [job EXCEPT !.deleted = FALSE, !.status = "analyzed"]

\* restore: the flag is cleared, everything else retained as it is
restored(job) == [job EXCEPT !.deleted = FALSE]

\* POST /api/jobs, first part: the job is persisted with status new and no
\* analysis, and the text goes to the hosted analysis service
serveCreateJob(s) ==
  /\ net[s].op = "createJob" /\ net[s].pc = "sent"
  /\ IF nextJobId <= MaxJobs
     THEN /\ jobs' = [jobs EXCEPT ![nextJobId] =
                        [status |-> "new", analysis |-> "", deleted |-> FALSE]]
          /\ nextJobId' = nextJobId + 1
          /\ net' = [net EXCEPT ![s] = [@ EXCEPT !.pc = "analyzing", !.rid = nextJobId]]
     ELSE /\ net' = [net EXCEPT ![s] = [@ EXCEPT !.pc = "err"]]
          /\ UNCHANGED <<jobs, nextJobId>>
  /\ UNCHANGED <<normalizerRuns, recordVars, addJobVars, current_user_id, beyondJobs>>

\* the backup copy of the raw response of job j: written, or the write fails
backupWrite(j) == \E written \in BOOLEAN : backups' = IF written THEN backups \cup {j} ELSE backups

\* the normalized write of an analysis that is undone when the backup write failed
normalizedWrite_RolledBack(job) ==
  IF backups' = backups THEN job
  ELSE [job EXCEPT !.status = "analyzed", !.analysis = "analysis"]

\* the normalized write: the analysis is stored and the job becomes analyzed
normalizedWrite(job) == [job EXCEPT !.status = "analyzed", !.analysis = "analysis"]

\* second part, the analysis service answered and the Analysis Normalizer
\* accepted the reply: the backup copy is attempted, the analysis is stored
\* and the job becomes analyzed
serveAnalysisOk(s) ==
  /\ net[s].op = "createJob" /\ net[s].pc = "analyzing"
  /\ backupWrite(net[s].rid)
  /\ jobs' = [jobs EXCEPT ![net[s].rid] = normalizedWrite(@)]
  /\ normalizerRuns' = [normalizerRuns EXCEPT ![net[s].rid] = @ + 1]
  /\ net' = [net EXCEPT ![s] = [@ EXCEPT !.pc = "ok", !.body = "analysis"]]
  /\ UNCHANGED <<nextJobId, analyses, addJobVars, current_user_id, beyondJobs>>

\* second part, the analysis call failed (timeout, vendor error): the job stays
\* as persisted and the caller is told it was created but not analyzed
serveAnalysisFailed(s) ==
  /\ net[s].op = "createJob" /\ net[s].pc = "analyzing"
  /\ net' = [net EXCEPT ![s] = [@ EXCEPT !.pc = "ok", !.body = "unanalyzed"]]
  /\ UNCHANGED <<jobVars, addJobVars, current_user_id, beyondJobs>>

\* second part, the reply lacks a required field: the Normalizer raises, the job
\* is not marked analyzed and the operation fails
serveAnalysisMalformed(s) ==
  /\ net[s].op = "createJob" /\ net[s].pc = "analyzing"
  /\ net' = [net EXCEPT ![s] = [@ EXCEPT !.pc = "err", !.body = "malformed"]]
  /\ UNCHANGED <<jobVars, addJobVars, current_user_id, beyondJobs>>

\* the jobs of a delete request that can be soft-deleted
deletable(ids) == {j \in ids \cap JobIds : jobs[j] # NoJob /\ ~jobs[j].deleted}

\* DELETE /api/jobs/{id} that removes the record
serveDeleteJob_Removes(s) ==
  /\ net[s].op = "deleteJob" /\ net[s].pc = "sent"
  /\ IF deletable({net[s].rid}) # {}
     THEN /\ jobs' = [jobs EXCEPT ![net[s].rid] = NoJob]
          /\ net' = [net EXCEPT ![s] = [@ EXCEPT !.pc = "ok"]]
     ELSE /\ net' = [net EXCEPT ![s] = [@ EXCEPT !.pc = "err"]]
          /\ UNCHANGED jobs
  /\ UNCHANGED <<nextJobId, normalizerRuns, recordVars, addJobVars, current_user_id,
                 beyondJobs>>

\* DELETE /api/jobs/{id}
serveDeleteJob(s) ==
  /\ net[s].op = "deleteJob" /\ net[s].pc = "sent"
  /\ IF deletable({net[s].rid}) # {}
     THEN /\ jobs' = [jobs EXCEPT ![net[s].rid] = softDeleted(@)]
          /\ net' = [net EXCEPT ![s] = [@ EXCEPT !.pc = "ok"]]
     ELSE /\ net' = [net EXCEPT ![s] = [@ EXCEPT !.pc = "err"]]
          /\ UNCHANGED jobs
  /\ UNCHANGED <<nextJobId, normalizerRuns, recordVars, addJobVars, current_user_id,
                 beyondJobs>>

\* POST /api/jobs/delete-multiple: each job soft-deleted as by a single delete;
\* the response lists the ids that succeeded and those that failed
serveDeleteMultiple(s) ==
  /\ net[s].op = "deleteMultiple" /\ net[s].pc = "sent"
  /\ jobs' = [j \in JobIds |-> IF j \in deletable(net[s].snap)
                               THEN softDeleted(jobs[j]) ELSE jobs[j]]
  /\ net' = [net EXCEPT ![s] = [@ EXCEPT !.pc = "ok", !.snap = deletable(net[s].snap)]]
  /\ UNCHANGED <<nextJobId, normalizerRuns, recordVars, addJobVars, current_user_id,
                 beyondJobs>>

\* POST /api/jobs/{id}/restore
serveRestoreJob(s) ==
  /\ net[s].op = "restoreJob" /\ net[s].pc = "sent"
  /\ IF net[s].rid \in JobIds /\ jobs[net[s].rid] # NoJob /\ jobs[net[s].rid].deleted
     THEN /\ jobs' = [jobs EXCEPT ![net[s].rid] = restored(@)]
          /\ net' = [net EXCEPT ![s] = [@ EXCEPT !.pc = "ok"]]
     ELSE /\ net' = [net EXCEPT ![s] = [@ EXCEPT !.pc = "err"]]
          /\ UNCHANGED jobs
  /\ UNCHANGED <<nextJobId, normalizerRuns, recordVars, addJobVars, current_user_id,
                 beyondJobs>>

(***************************************************************************)
(* Dashboard                                                               *)
(***************************************************************************)
dashboardRequest(op) ==
  [op |-> op, pc |-> "sent", file |-> NoFile, rid |-> 0, snap |-> {}, owner |-> "dashboard",
   body |-> ""]

FreeSlots == {s \in Slots : net[s] = NoMsg}

\* loadDashboardData up to its await: getUserDashboard and getUserJobs are
\* requested in parallel
loadDashboardData(userId) ==
  /\ \E s1, s2 \in FreeSlots :
       /\ s1 < s2 /\ \A t \in FreeSlots : s1 <= t /\ (t = s1 \/ s2 <= t)
       /\ net' = [net EXCEPT ![s1] = dashboardRequest("getUserDashboard"),
                             ![s2] = dashboardRequest("getUserJobs")]
  /\ dashboardLoading' = TRUE
  /\ dashboardError' = null

\* the mount effect: with a user in local storage load the dashboard, without
\* one list the JD files instead
mountDashboard ==
  /\ ~dashboardMounted
  /\ dashboardMounted' = TRUE
  /\ IF current_user_id # null
     THEN /\ dashboardUserId' = current_user_id
          /\ loadDashboardData(current_user_id)
     ELSE /\ HasFreeSlot
          /\ net' = [net EXCEPT ![FreeSlot] = dashboardRequest("listJDFiles")]
          /\ UNCHANGED <<dashboardUserId, dashboardLoading, dashboardError>>
  /\ UNCHANGED <<dashboardData, dashboardJobs, files, deleteModeVars,
                 current_user_id, beyondDashboard>>

\* the Try Again button of the error view
tryAgain ==
  /\ dashboardMounted /\ ~dashboardLoading /\ dashboardError # null
  /\ dashboardUserId # null
  /\ loadDashboardData(dashboardUserId)
  /\ UNCHANGED <<dashboardUserId, dashboardData, dashboardJobs, dashboardMounted, files,
                 deleteModeVars,
                 current_user_id, beyondDashboard>>

\* the jobs of a getUserJobs response, as the page holds them
jobsResult(ids) ==
  [i \in 1..Cardinality(ids) |->
     LET j == CHOOSE k \in ids : Cardinality({l \in ids : l < k}) = i - 1
     IN [job_id |-> j, job_title |-> "Engineer", company_name |-> "Acme",
         application_status |-> "new"]]

\* loadDashboardData after Promise.all resolved
loadDashboardDataOk(s1, s2) ==
  /\ net[s1].owner = "dashboard" /\ net[s1].op = "getUserDashboard" /\ net[s1].pc = "ok"
  /\ net[s2].owner = "dashboard" /\ net[s2].op = "getUserJobs" /\ net[s2].pc = "ok"
  /\ dashboardData' = "loaded"
  /\ dashboardJobs' = jobsResult(net[s2].snap)
  /\ dashboardLoading' = FALSE
  /\ net' = [net EXCEPT ![s1] = NoMsg, ![s2] = NoMsg]
  /\ UNCHANGED <<dashboardUserId, dashboardError, dashboardMounted, files,
                 deleteModeVars,
                 current_user_id, beyondDashboard>>

\* loadDashboardData after Promise.all rejected: the first failure is reported,
\* the result of the other request is dropped when it arrives
loadDashboardDataFailed(s) ==
  /\ net[s].owner = "dashboard" /\ net[s].op \in {"getUserDashboard", "getUserJobs"}
  /\ net[s].pc = "err"
  /\ dashboardError' = "Failed to load dashboard data"
  /\ dashboardLoading' = FALSE
  /\ net' = [t \in Slots |-> IF t = s THEN NoMsg
                             ELSE IF net[t].owner = "dashboard"
                             THEN [net[t] EXCEPT !.owner = "dropped"] ELSE net[t]]
  /\ UNCHANGED <<dashboardUserId, dashboardData, dashboardJobs, dashboardMounted, files,
                 deleteModeVars,
                 current_user_id, beyondDashboard>>

\* a response nobody awaits any more
droppedResponse(s) ==
  /\ net[s].owner = "dropped" /\ net[s].pc \in {"ok", "err"}
  /\ net' = [net EXCEPT ![s] = NoMsg]
  /\ UNCHANGED <<dashboardVars, current_user_id, beyondDashboard>>

\* the fallback's conversion of a JD file to a job of the list (its position
\* stands for its id)
jdFileJob(f, idx) ==
  [job_id |-> idx, job_title |-> orElse(f.job_title, "Unknown Position"),
   company_name |-> orElse(f.company_name, "Unknown Company"), application_status |-> "new"]

\* the fallback after listJDFiles returned
listJDFilesOk(s) ==
  /\ net[s].owner = "dashboard" /\ net[s].op = "listJDFiles" /\ net[s].pc = "ok"
  /\ dashboardData' = "fallback"
  /\ dashboardJobs' = [i \in DOMAIN files |-> jdFileJob(files[i], i)]
  /\ dashboardLoading' = FALSE
  /\ net' = [net EXCEPT ![s] = NoMsg]
  /\ UNCHANGED <<dashboardUserId, dashboardError, dashboardMounted, files,
                 deleteModeVars,
                 current_user_id, beyondDashboard>>

\* the fallback after listJDFiles threw: a console warning only
listJDFilesFailed(s) ==
  /\ net[s].owner = "dashboard" /\ net[s].op = "listJDFiles" /\ net[s].pc = "err"
  /\ dashboardLoading' = FALSE
  /\ net' = [net EXCEPT ![s] = NoMsg]
  /\ UNCHANGED <<dashboardUserId, dashboardData, dashboardJobs, dashboardError,
                 dashboardMounted, files, deleteModeVars,
                 current_user_id, beyondDashboard>>

\* what the page renders
dashboardView ==
  IF dashboardUserId = null /\ ~dashboardLoading THEN "UserOnboarding"
  ELSE IF dashboardLoading THEN "Loading your dashboard..."
  ELSE IF dashboardError # null THEN "error"
  ELSE "My Jobs"

\* jobs.map(job => job.job_id)
listedJobIds == {dashboardJobs[i].job_id : i \in DOMAIN dashboardJobs}

\* the Delete Jobs button, shown while the list is not empty
enterDeleteMode ==
  /\ dashboardView = "My Jobs" /\ ~showDeleteMode /\ Len(dashboardJobs) > 0
  /\ showDeleteMode' = TRUE
  /\ UNCHANGED <<dashboardUserId, dashboardData, dashboardJobs, dashboardLoading,
                 dashboardError, dashboardMounted, files, selectedJobs, isDeleting,
                 net, current_user_id, beyondDashboard>>

\* handleJobSelection: the checkbox of a job card in delete mode
handleJobSelection(jobId) ==
  /\ dashboardView = "My Jobs" /\ showDeleteMode /\ jobId \in listedJobIds
  /\ selectedJobs' = IF jobId \in selectedJobs THEN selectedJobs \ {jobId}
                     ELSE selectedJobs \cup {jobId}
  /\ UNCHANGED <<dashboardUserId, dashboardData, dashboardJobs, dashboardLoading,
                 dashboardError, dashboardMounted, files, isDeleting, showDeleteMode,
                 net, current_user_id, beyondDashboard>>

\* handleSelectAll
handleSelectAll ==
  /\ dashboardView = "My Jobs" /\ showDeleteMode
  /\ selectedJobs' = IF Cardinality(selectedJobs) = Len(dashboardJobs) THEN {}
                     ELSE listedJobIds
  /\ selectedJobs' # selectedJobs
  /\ UNCHANGED <<dashboardUserId, dashboardData, dashboardJobs, dashboardLoading,
                 dashboardError, dashboardMounted, files, isDeleting, showDeleteMode,
                 net, current_user_id, beyondDashboard>>

\* the Cancel button of delete mode
cancelDeleteMode ==
  /\ dashboardView = "My Jobs" /\ showDeleteMode
  /\ showDeleteMode' = FALSE
  /\ selectedJobs' = {}
  /\ UNCHANGED <<dashboardUserId, dashboardData, dashboardJobs, dashboardLoading,
                 dashboardError, dashboardMounted, files, isDeleting,
                 net, current_user_id, beyondDashboard>>

\* handleDeleteSelected up to its await of deleteMultipleJobs; the button is
\* disabled while nothing is selected or a delete is under way
handleDeleteSelected ==
  /\ dashboardView = "My Jobs" /\ showDeleteMode
  /\ selectedJobs # {} /\ ~isDeleting
  /\ HasFreeSlot
  /\ isDeleting' = TRUE
  /\ net' = [net EXCEPT ![FreeSlot] =
               [jobRequest("deleteMultiple", 0, selectedJobs) EXCEPT !.owner = "deleteSelected"]]
  /\ UNCHANGED <<dashboardUserId, dashboardData, dashboardJobs, dashboardLoading,
                 dashboardError, dashboardMounted, files, selectedJobs, showDeleteMode,
                 current_user_id, beyondDashboard>>

\* handleDeleteSelected after its await.  deleteMultipleJobs threw: the catch
\* sets the error.  It returned: the next statement calls loadJobs, which is
\* declared nowhere, so a ReferenceError is thrown before the selection is
\* reset and the same catch sets the same error.
handleDeleteSelectedDone(s) ==
  /\ net[s].owner = "deleteSelected" /\ net[s].pc \in {"ok", "err"}
  /\ dashboardError' = "Failed to delete jobs. Please try again."
  /\ isDeleting' = FALSE
  /\ net' = [net EXCEPT ![s] = NoMsg]
  /\ UNCHANGED <<dashboardUserId, dashboardData, dashboardJobs, dashboardLoading,
                 dashboardMounted, files, selectedJobs, showDeleteMode,
                 current_user_id, beyondDashboard>>

(***************************************************************************)
(* Workflow API: dashboard and JD files (modelled from the written         *)
(* specification)                                                          *)
(***************************************************************************)
\* GET /api/users/{id}/dashboard
serveUserDashboard(s) ==
  /\ net[s].op = "getUserDashboard" /\ net[s].pc = "sent"
  /\ net' = [net EXCEPT ![s] = [@ EXCEPT !.pc = "ok"]]
  /\ UNCHANGED <<dashboardVars, current_user_id, beyondDashboard>>

\* GET /api/users/{id}/jobs: the jobs that are not soft-deleted
serveUserJobs(s) ==
  /\ net[s].op = "getUserJobs" /\ net[s].pc = "sent"
  /\ net' = [net EXCEPT ![s] = [@ EXCEPT !.pc = "ok",
                 !.snap = {j \in JobIds : jobs[j] # NoJob /\ ~jobs[j].deleted}]]
  /\ UNCHANGED <<dashboardVars, current_user_id, beyondDashboard>>

\* GET /api/jd-files: the stored raw analysis responses, whatever they hold
serveListJDFiles(s) ==
  /\ net[s].op = "listJDFiles" /\ net[s].pc = "sent"
  /\ \E items \in JdListings : files' = items
  /\ net' = [net EXCEPT ![s] = [@ EXCEPT !.pc = "ok"]]
  /\ UNCHANGED <<dashboardUserId, dashboardData, dashboardJobs, dashboardLoading,
                 dashboardError, dashboardMounted, deleteModeVars,
                 current_user_id, beyondDashboard>>

\* the store or the service is unavailable: a non-OK response
serveDashboardFailed(s) ==
  /\ net[s].op \in {"getUserDashboard", "getUserJobs", "listJDFiles"} /\ net[s].pc = "sent"
  /\ net' = [net EXCEPT ![s] = [@ EXCEPT !.pc = "err"]]
  /\ UNCHANGED <<dashboardVars, current_user_id, beyondDashboard>>

(***************************************************************************)
(* CreateResumePage (the wizard)                                           *)
(***************************************************************************)
wizardSteps == 5

\* onChange of the job description textarea of step 1
setJdText(text) ==
  /\ currentStep = 1
  /\ jdText # text
  /\ jdText' = text
  /\ UNCHANGED <<currentStep, resumeFile, jdAnalysis, resumeAnalysis, rewriteApproach,
                 wizardAnalyzing, wizardError, current_job_id, current_analysis_id,
                 jobVars, current_user_id, net, beyondWizard>>

\* onChange of the file input of step 2: the chosen file, or null, is stored as is
setResumeFile(file) ==
  /\ currentStep = 2
  /\ resumeFile # file
  /\ resumeFile' = file
  /\ UNCHANGED <<currentStep, jdText, jdAnalysis, resumeAnalysis, rewriteApproach,
                 wizardAnalyzing, wizardError, current_job_id, current_analysis_id,
                 jobVars, current_user_id, net, beyondWizard>>

\* the option cards of step 3
setRewriteApproach(approach) ==
  /\ currentStep = 3
  /\ rewriteApproach # approach
  /\ rewriteApproach' = approach
  /\ UNCHANGED <<currentStep, jdText, resumeFile, jdAnalysis, resumeAnalysis,
                 wizardAnalyzing, wizardError, current_job_id, current_analysis_id,
                 jobVars, current_user_id, net, beyondWizard>>

\* handleNext, from the Continue button of step 3 (disabled without an approach)
\* and the Next button of step 4
handleNext ==
  /\ \/ currentStep = 3 /\ rewriteApproach # null
     \/ currentStep = 4
  /\ currentStep' = IF currentStep < wizardSteps THEN currentStep + 1 ELSE currentStep
  /\ UNCHANGED <<jdText, resumeFile, jdAnalysis, resumeAnalysis, rewriteApproach,
                 wizardAnalyzing, wizardError, current_job_id, current_analysis_id,
                 jobVars, current_user_id, net, beyondWizard>>

\* handlePrevious, from the Back buttons of steps 2 to 5
handlePrevious ==
  /\ currentStep \in 2..5
  /\ currentStep' = IF currentStep > 1 THEN currentStep - 1 ELSE currentStep
  /\ UNCHANGED <<jdText, resumeFile, jdAnalysis, resumeAnalysis, rewriteApproach,
                 wizardAnalyzing, wizardError, current_job_id, current_analysis_id,
                 jobVars, current_user_id, net, beyondWizard>>

wizardRequest(op, file, jobId, text) ==
  [op |-> op, pc |-> "sent", file |-> file, rid |-> jobId, snap |-> {}, owner |-> "wizard",
   body |-> text]

\* analyzeJD up to its await; its button is on step 1, disabled while the text
\* is blank or an analysis is under way
analyzeJD ==
  /\ currentStep = 1 /\ trim(jdText) # "" /\ ~wizardAnalyzing
  /\ IF trim(jdText) = ""
     THEN UNCHANGED <<wizardAnalyzing, wizardError, net>>
     ELSE IF current_user_id = null
     THEN /\ wizardError' = "Please log in to continue"
          /\ UNCHANGED <<wizardAnalyzing, net>>
     ELSE /\ HasFreeSlot
          /\ wizardAnalyzing' = TRUE
          /\ wizardError' = null
          /\ net' = [net EXCEPT ![FreeSlot] =
                       wizardRequest("createJobForWizard", NoFile, 0, jdText)]
  /\ UNCHANGED <<currentStep, jdText, resumeFile, jdAnalysis, resumeAnalysis, rewriteApproach,
                 current_job_id, current_analysis_id, jobVars, current_user_id, beyondWizard>>

\* analyzeJD after its await: the analysis and the job id are kept and
\* handleNext, with the step of the render that started the call, moves to step 2
analyzeJDDone(s) ==
  /\ net[s].owner = "wizard" /\ net[s].op = "createJobForWizard"
  /\ net[s].pc \in {"ok", "err"}
  /\ net' = [net EXCEPT ![s] = NoMsg]
  /\ IF net[s].pc = "ok"
     THEN /\ jdAnalysis' = "analysis"
          /\ current_job_id' = net[s].rid
          /\ sessionJobId' = net[s].rid
          /\ currentStep' = 2
          /\ UNCHANGED wizardError
     ELSE /\ wizardError' = "Failed to analyze job description"
          /\ UNCHANGED <<jdAnalysis, current_job_id, sessionJobId, currentStep>>
  /\ wizardAnalyzing' = FALSE
  /\ UNCHANGED <<jdText, resumeFile, resumeAnalysis, rewriteApproach, current_analysis_id,
                 jobVars, current_user_id, beyondSession>>

\* analyzeResume up to its await; its button is on step 2, disabled without a
\* file or while an analysis is under way
analyzeResume ==
  /\ currentStep = 2 /\ resumeFile # NoFile /\ ~wizardAnalyzing
  /\ IF resumeFile = NoFile
     THEN UNCHANGED <<wizardAnalyzing, wizardError, net>>
     ELSE IF current_user_id = null
     THEN /\ wizardError' = "Please log in to continue"
          /\ UNCHANGED <<wizardAnalyzing, net>>
     ELSE IF current_job_id = 0
     THEN /\ wizardError' = "Job information not found"
          /\ UNCHANGED <<wizardAnalyzing, net>>
     ELSE /\ HasFreeSlot
          /\ wizardAnalyzing' = TRUE
          /\ wizardError' = null
          /\ net' = [net EXCEPT ![FreeSlot] =
                       wizardRequest("analyzeResumeForWizard", resumeFile, current_job_id, "")]
  /\ UNCHANGED <<currentStep, jdText, resumeFile, jdAnalysis, resumeAnalysis, rewriteApproach,
                 current_job_id, current_analysis_id, jobVars, current_user_id, beyondWizard>>

\* analyzeResume after its await, were handleNext called whatever the outcome
analyzeResumeDone_NextOnFailure(s) ==
  /\ net[s].owner = "wizard" /\ net[s].op = "analyzeResumeForWizard"
  /\ net[s].pc \in {"ok", "err"}
  /\ net' = [net EXCEPT ![s] = NoMsg]
  /\ IF net[s].pc = "ok"
     THEN /\ resumeAnalysis' = "analysis"
          /\ current_analysis_id' = IF net[s].body = "analysis_id" THEN 1
                                    ELSE current_analysis_id
          /\ UNCHANGED wizardError
     ELSE /\ wizardError' = "Failed to analyze resume"
          /\ UNCHANGED <<resumeAnalysis, current_analysis_id>>
  /\ currentStep' = 3
  /\ wizardAnalyzing' = FALSE
  /\ UNCHANGED <<jdText, resumeFile, jdAnalysis, rewriteApproach, current_job_id,
                 jobVars, current_user_id, beyondWizard>>

\* analyzeResume after its await: the result is kept, its analysis id stored if
\* it has one, and handleNext moves to step 3
analyzeResumeDone(s) ==
  /\ net[s].owner = "wizard" /\ net[s].op = "analyzeResumeForWizard"
  /\ net[s].pc \in {"ok", "err"}
  /\ net' = [net EXCEPT ![s] = NoMsg]
  /\ IF net[s].pc = "ok"
     THEN /\ resumeAnalysis' = "analysis"
          /\ current_analysis_id' = IF net[s].body = "analysis_id" THEN 1
                                    ELSE current_analysis_id
          /\ currentStep' = 3
          /\ UNCHANGED wizardError
     ELSE /\ wizardError' = "Failed to analyze resume"
          /\ UNCHANGED <<resumeAnalysis, current_analysis_id, currentStep>>
  /\ wizardAnalyzing' = FALSE
  /\ UNCHANGED <<jdText, resumeFile, jdAnalysis, rewriteApproach, current_job_id,
                 jobVars, current_user_id, beyondWizard>>

\* analyzeJD of a second wizard session in another tab of the browser, up to
\* its await; of that session only what it sends and what it writes to the
\* shared local storage is kept
otherSessionAnalyzeJD ==
  /\ current_user_id # null
  /\ \A s \in Slots : net[s].owner # "otherWizard"
  /\ HasFreeSlot
  /\ net' = [net EXCEPT ![FreeSlot] =
               [wizardRequest("createJobForWizard", NoFile, 0, "JD") EXCEPT
                  !.owner = "otherWizard"]]
  /\ UNCHANGED <<wizardVars, jobVars, current_user_id, beyondWizard>>

\* analyzeJD of that session after its await: on success the job id goes to
\* the local storage key both sessions use
otherSessionAnalyzeJDDone(s) ==
  /\ net[s].owner = "otherWizard" /\ net[s].pc \in {"ok", "err"}
  /\ net' = [net EXCEPT ![s] = NoMsg]
  /\ current_job_id' = IF net[s].pc = "ok" THEN net[s].rid ELSE current_job_id
  /\ UNCHANGED <<currentStep, jdText, resumeFile, jdAnalysis, resumeAnalysis, rewriteApproach,
                 wizardAnalyzing, wizardError, current_analysis_id, jobVars, current_user_id,
                 beyondWizard>>

(***************************************************************************)
(* Workflow API: wizard (modelled from the written specification)          *)
(***************************************************************************)
\* POST /api/wizard/create-job: the job is created and its description analyzed
serveWizardCreateJob(s) ==
  /\ net[s].op = "createJobForWizard" /\ net[s].pc = "sent"
  /\ nextJobId <= MaxJobs
  /\ backupWrite(nextJobId)
  /\ jobs' = [jobs EXCEPT ![nextJobId] =
                normalizedWrite([status |-> "new", analysis |-> "", deleted |-> FALSE])]
  /\ normalizerRuns' = [normalizerRuns EXCEPT ![nextJobId] = @ + 1]
  /\ UNCHANGED analyses
  /\ nextJobId' = nextJobId + 1
  /\ net' = [net EXCEPT ![s] = [@ EXCEPT !.pc = "ok", !.rid = nextJobId]]
  /\ UNCHANGED <<wizardVars, current_user_id, beyondWizard>>

\* POST /api/wizard/analyze-resume, first part: the job of the request is
\* looked up (not found without a record), and the resume goes to the hosted
\* analysis service
serveWizardAnalyzeResume(s) ==
  /\ net[s].op = "analyzeResumeForWizard" /\ net[s].pc = "sent"
  /\ net' = [net EXCEPT ![s] = [@ EXCEPT !.pc =
               IF net[s].rid \in JobIds /\ jobs[net[s].rid] # NoJob THEN "analyzing"
               ELSE "err"]]
  /\ UNCHANGED <<jobVars, wizardVars, current_user_id, beyondWizard>>

\* the Analysis record of a resume analyzed against a job, with its timestamp;
\* parentExisted (history) tells whether the job had a record when this one
\* was created
analysisRecord(jobId) ==
  [job |-> jobId, timestamp |-> Len(analyses) + 1, parentExisted |-> jobs[jobId] # NoJob]

\* the Analysis collection after a write that edits the record of the same job
\* in place
storedAnalyses_InPlace(record) ==
  IF \E i \in DOMAIN analyses : analyses[i].job = record.job
  THEN [i \in DOMAIN analyses |-> IF analyses[i].job = record.job THEN record
                                  ELSE analyses[i]]
  ELSE Append(analyses, record)

\* the Analysis collection after the record is created: the records there stay,
\* the new one is the latest
storedAnalyses(record) == Append(analyses, record)

\* second part, the analysis service answered: the Analysis record is created
\* and the result returned; it may or may not carry an analysis id.  When the
\* collection is full the store refuses the write and the operation fails.
serveWizardAnalysisStored(s) ==
  /\ net[s].op = "analyzeResumeForWizard" /\ net[s].pc = "analyzing"
  /\ IF Len(analyses) < MaxAnalyses
     THEN /\ analyses' = storedAnalyses(analysisRecord(net[s].rid))
          /\ \E id \in {"analysis_id", ""} :
               net' = [net EXCEPT ![s] = [@ EXCEPT !.pc = "ok", !.body = id]]
     ELSE /\ net' = [net EXCEPT ![s] = [@ EXCEPT !.pc = "err"]]
          /\ UNCHANGED analyses
  /\ UNCHANGED <<jobs, nextJobId, normalizerRuns, backups, wizardVars, current_user_id,
                 beyondWizard>>

\* the analysis service or the store is unavailable: a non-OK response
serveWizardFailed(s) ==
  /\ net[s].owner = "wizard" /\ net[s].pc = "sent"
  /\ net' = [net EXCEPT ![s] = [@ EXCEPT !.pc = "err"]]
  /\ UNCHANGED <<jobVars, wizardVars, current_user_id, beyondWizard>>

(***************************************************************************)
(* ResumeCard.tsx (thumbnail) and ResumePreviewModal.tsx                   *)
(***************************************************************************)
\* the card of this resume
cardResume == 1

urlRequest(op, who) ==
  [op |-> op, pc |-> "sent", file |-> NoFile, rid |-> cardResume, snap |-> {}, owner |-> who,
   body |-> ""]

\* the card's effect and loadThumbnail without the test of isLoadingThumbnail
thumbnailEffect_NoLoadingGuard(hovered, preview, log) ==
  IF (hovered \/ preview) /\ ~thumbnailLoaded
  THEN /\ HasFreeSlot
       /\ isLoadingThumbnail' = TRUE
       /\ net' = [net EXCEPT ![FreeSlot] = urlRequest("getResumePreviewUrl", "card")]
       /\ sinceAction' = [log EXCEPT !.thumbPreview = @ + 1]
  ELSE /\ UNCHANGED <<isLoadingThumbnail, net>>
       /\ sinceAction' = log

\* the card's effect on [isHovered, showPreview, thumbnailLoaded] followed by
\* loadThumbnail up to its first await, given the new values of the two flags;
\* log is the request log the step starts from
thumbnailEffect(hovered, preview, log) ==
  IF (hovered \/ preview) /\ ~thumbnailLoaded /\ ~(thumbnailLoaded \/ isLoadingThumbnail)
  THEN /\ HasFreeSlot
       /\ isLoadingThumbnail' = TRUE
       /\ net' = [net EXCEPT ![FreeSlot] = urlRequest("getResumePreviewUrl", "card")]
       /\ sinceAction' = [log EXCEPT !.thumbPreview = @ + 1]
  ELSE /\ UNCHANGED <<isLoadingThumbnail, net>>
       /\ sinceAction' = log

\* the card is rendered once the page's list holds its resume
CardMounted == cardResume \in uploadedResumes["tab1"].ids

\* onMouseEnter of the card
onMouseEnter ==
  /\ CardMounted
  /\ ~isHovered
  /\ isHovered' = TRUE
  /\ thumbnailEffect(TRUE, showPreview, Acted)
  /\ UNCHANGED <<showPreview, thumbnailUrl, thumbnailLoaded, modalVars, beyondPreview>>

\* onMouseLeave of the card
onMouseLeave ==
  /\ CardMounted
  /\ isHovered
  /\ isHovered' = FALSE
  /\ thumbnailEffect(FALSE, showPreview, Acted)
  /\ UNCHANGED <<showPreview, thumbnailUrl, thumbnailLoaded, modalVars, beyondPreview>>

\* loadPreview of the modal up to its await
loadPreview(slot, log) ==
  /\ modalLoading' = TRUE
  /\ modalError' = ""
  /\ net' = [net EXCEPT ![slot] = urlRequest("getResumePreviewUrl", "modal")]
  /\ sinceAction' = [log EXCEPT !.modalPreview = @ + 1]

\* handleView: the modal opens; the modal's effect loads the preview and the
\* card's effect loads the thumbnail if it is neither loaded nor loading
handleView ==
  /\ CardMounted
  /\ ~showPreview
  /\ showPreview' = TRUE
  /\ IF ~thumbnailLoaded /\ ~isLoadingThumbnail
     THEN \E s1, s2 \in FreeSlots :
            /\ s1 < s2 /\ \A t \in FreeSlots : s1 <= t /\ (t = s1 \/ s2 <= t)
            /\ isLoadingThumbnail' = TRUE
            /\ modalLoading' = TRUE
            /\ modalError' = ""
            /\ net' = [net EXCEPT ![s1] = urlRequest("getResumePreviewUrl", "card"),
                                  ![s2] = urlRequest("getResumePreviewUrl", "modal")]
            /\ sinceAction' = [Acted EXCEPT !.thumbPreview = 1, !.modalPreview = 1]
     ELSE /\ HasFreeSlot
          /\ loadPreview(FreeSlot, Acted)
          /\ UNCHANGED isLoadingThumbnail
  /\ UNCHANGED <<isHovered, thumbnailUrl, thumbnailLoaded, previewUrl, beyondPreview>>

\* onClose of the modal; the card's effect runs again
modalOnClose ==
  /\ showPreview
  /\ showPreview' = FALSE
  /\ thumbnailEffect(isHovered, FALSE, Acted)
  /\ UNCHANGED <<isHovered, thumbnailUrl, thumbnailLoaded, modalVars, beyondPreview>>

\* the Try Again button of the modal's error view
modalTryAgain ==
  /\ showPreview /\ ~modalLoading /\ modalError # ""
  /\ HasFreeSlot
  /\ loadPreview(FreeSlot, Acted)
  /\ UNCHANGED <<cardVars, previewUrl, beyondPreview>>

\* loadThumbnail after the preview URL arrived
thumbnailPreviewOk(s) ==
  /\ net[s].owner = "card" /\ net[s].op = "getResumePreviewUrl" /\ net[s].pc = "ok"
  /\ thumbnailUrl' = "preview_url"
  /\ thumbnailLoaded' = TRUE
  /\ isLoadingThumbnail' = FALSE
  /\ net' = [net EXCEPT ![s] = NoMsg]
  /\ UNCHANGED <<isHovered, showPreview, modalVars, sinceAction, beyondPreview>>

\* loadThumbnail after the preview request failed: fall back to the download URL
thumbnailPreviewFailed(s) ==
  /\ net[s].owner = "card" /\ net[s].op = "getResumePreviewUrl" /\ net[s].pc = "err"
  /\ net' = [net EXCEPT ![s] = urlRequest("getResumeDownloadUrl", "card")]
  /\ sinceAction' = [sinceAction EXCEPT !.thumbDownload = @ + 1, !.previewFailed = TRUE]
  /\ UNCHANGED <<cardVars, modalVars, beyondPreview>>

\* loadThumbnail after the download URL arrived
thumbnailFallbackOk(s) ==
  /\ net[s].owner = "card" /\ net[s].op = "getResumeDownloadUrl" /\ net[s].pc = "ok"
  /\ thumbnailUrl' = "download_url"
  /\ thumbnailLoaded' = TRUE
  /\ isLoadingThumbnail' = FALSE
  /\ net' = [net EXCEPT ![s] = NoMsg]
  /\ UNCHANGED <<isHovered, showPreview, modalVars, sinceAction, beyondPreview>>

\* loadThumbnail after the fallback failed too, asking for the preview URL again
thumbnailFallbackFailed_Retries(s) ==
  /\ net[s].owner = "card" /\ net[s].op = "getResumeDownloadUrl" /\ net[s].pc = "err"
  /\ net' = [net EXCEPT ![s] = urlRequest("getResumePreviewUrl", "card")]
  /\ sinceAction' = [sinceAction EXCEPT !.thumbPreview = @ + 1]
  /\ UNCHANGED <<cardVars, modalVars, beyondPreview>>

\* loadThumbnail after the fallback failed too: logged, the card stays without
\* a thumbnail
thumbnailFallbackFailed(s) ==
  /\ net[s].owner = "card" /\ net[s].op = "getResumeDownloadUrl" /\ net[s].pc = "err"
  /\ isLoadingThumbnail' = FALSE
  /\ net' = [net EXCEPT ![s] = NoMsg]
  /\ UNCHANGED <<isHovered, showPreview, thumbnailUrl, thumbnailLoaded, modalVars,
                 sinceAction, beyondPreview>>

\* loadPreview after its await
loadPreviewDone(s) ==
  /\ net[s].owner = "modal" /\ net[s].pc \in {"ok", "err"}
  /\ IF net[s].pc = "ok"
     THEN previewUrl' = "preview_url" /\ UNCHANGED modalError
     ELSE modalError' = "Failed to load resume preview" /\ UNCHANGED previewUrl
  /\ modalLoading' = FALSE
  /\ net' = [net EXCEPT ![s] = NoMsg]
  /\ UNCHANGED <<cardVars, sinceAction, beyondPreview>>

(***************************************************************************)
(* Workflow API: preview and download URLs (modelled from the written      *)
(* specification)                                                          *)
(***************************************************************************)
\* GET /api/resumes/{id}/preview-url and /download-url: not found for a resume
\* that has no record; otherwise a URL, or a failure (the store is unavailable)
serveResumeUrl(s) ==
  /\ net[s].op \in {"getResumePreviewUrl", "getResumeDownloadUrl"} /\ net[s].pc = "sent"
  /\ \E outcome \in (IF net[s].rid \in records THEN {"ok", "err"} ELSE {"err"}) :
       net' = [net EXCEPT ![s] = [@ EXCEPT !.pc = outcome]]
  /\ UNCHANGED <<previewSide, beyondPreview>>

(***************************************************************************)
(* userService.getJobDetails and JobDetailPage                             *)
(***************************************************************************)
\* jobId.startsWith('jd_')
startsWithJd(jobId) == jobId.prefix = "jd_"

\* fetch(`${API_BASE_URL}${endpoint}${jobId}`): body holds the path up to the
\* number of the id
detailRequest(endpoint, jobId) ==
  [op |-> "getJobDetails", pc |-> "sent", file |-> NoFile, rid |-> jobId.n, snap |-> {},
   owner |-> "detail",
   body |-> IF endpoint = "/api/jd-files/"
            THEN (IF startsWithJd(jobId) THEN "/api/jd-files/jd_" ELSE "/api/jd-files/")
            ELSE (IF startsWithJd(jobId) THEN "/api/jobs/jd_" ELSE "/api/jobs/")]

\* the first getJobDetails of the userService object literal: the request it sends
getJobDetailsFirst(jobId) ==
  IF startsWithJd(jobId)
  THEN detailRequest("/api/jd-files/", jobId)
  ELSE detailRequest("/api/jobs/", jobId)

\* the second getJobDetails of the same object literal: the request it sends.  A
\* later property of an object literal replaces an earlier one of the same
\* name, so this is userService.getJobDetails
getJobDetails(jobId) == detailRequest("/api/jobs/", jobId)

\* the page is opened for a job id: fresh state, and the effect fetches the
\* details; a fetch of the page that was open before is no longer awaited
openJobDetail(jobId) ==
  /\ detailJobId # jobId
  /\ detailJobId' = jobId
  /\ detailJob' = NoJobDetail
  /\ detailLoading' = TRUE
  /\ detailError' = null
  /\ \E slot \in FreeSlots :
       /\ \A t \in FreeSlots : slot <= t
       /\ net' = [t \in Slots |-> IF t = slot THEN getJobDetails(jobId)
                                  ELSE IF net[t].owner = "detail"
                                  THEN [net[t] EXCEPT !.owner = "dropped"] ELSE net[t]]
  /\ UNCHANGED <<downloadLog, beyondFetch>>

\* fetchJobDetails after its await, presenting a failed fetch as an empty job
fetchJobDetailsDone_EmptyJob(s) ==
  /\ net[s].owner = "detail" /\ net[s].pc \in {"ok", "err"}
  /\ detailJob' = [job_id |-> net[s].rid, job_title |-> "", company_name |-> ""]
  /\ detailLoading' = FALSE
  /\ net' = [net EXCEPT ![s] = NoMsg]
  /\ UNCHANGED <<detailJobId, detailError, downloadLog, beyondFetch>>

\* fetchJobDetails after its await: the job, or the error
fetchJobDetailsDone(s) ==
  /\ net[s].owner = "detail" /\ net[s].pc \in {"ok", "err"}
  /\ IF net[s].pc = "ok"
     THEN /\ detailJob' = [job_id |-> net[s].rid, job_title |-> "Engineer",
                           company_name |-> "Acme"]
          /\ UNCHANGED detailError
     ELSE /\ detailError' = "Failed to load job details"
          /\ UNCHANGED detailJob
  /\ detailLoading' = FALSE
  /\ net' = [net EXCEPT ![s] = NoMsg]
  /\ UNCHANGED <<detailJobId, downloadLog, beyondFetch>>

\* what the page renders
detailView ==
  IF detailJobId = NoRoute THEN "closed"
  ELSE IF detailLoading THEN "Loading job details..."
  ELSE IF detailError # null \/ detailJob = NoJobDetail THEN "Job Not Found"
  ELSE "job"

(***************************************************************************)
(* ResumeCard.handleDownload                                               *)
(***************************************************************************)
\* handleDownload of the card of resume r, up to its await
handleDownload(r) ==
  /\ r \in uploadedResumes["tab1"].ids
  /\ HasFreeSlot
  /\ net' = [net EXCEPT ![FreeSlot] =
               [op |-> "getResumeDownloadUrl", pc |-> "sent", file |-> NoFile, rid |-> r,
                snap |-> {}, owner |-> "download", body |-> ""]]
  /\ UNCHANGED <<fetchSide, beyondFetch>>

\* handleDownload after its await: the link is clicked, or the failure alerted
handleDownloadDone(s) ==
  /\ net[s].owner = "download" /\ net[s].pc \in {"ok", "err"}
  /\ downloadLog' = IF net[s].pc = "ok" THEN "link.click" ELSE "alert"
  /\ net' = [net EXCEPT ![s] = NoMsg]
  /\ UNCHANGED <<detailVars, beyondFetch>>

(***************************************************************************)
(* Workflow API: job details (modelled from the written specification)     *)
(***************************************************************************)
\* the job a request to /api/jobs/{id} asks for has a record (no database id
\* starts with jd_)
JobFound(msg) == msg.body = "/api/jobs/" /\ msg.rid \in JobIds /\ jobs[msg.rid] # NoJob

\* GET /api/jobs/{id}: the job, or not found
serveJobDetails(s) ==
  /\ net[s].op = "getJobDetails" /\ net[s].pc = "sent"
  /\ net[s].body \in {"/api/jobs/", "/api/jobs/jd_"}
  /\ net' = [net EXCEPT ![s] = [@ EXCEPT !.pc = IF JobFound(net[s]) THEN "ok" ELSE "err"]]
  /\ UNCHANGED <<fetchSide, beyondFetch>>

(***************************************************************************)
(* JDAnalyzerPage                                                          *)
(***************************************************************************)
\* analyzeJD(jdText) of the page: POST /api/analyze-jd
analyzerRequest(text) ==
  [op |-> "analyze-jd", pc |-> "sent", file |-> NoFile, rid |-> 0, snap |-> {},
   owner |-> "analyzer", body |-> text]

\* onChange of the textarea
setAnalyzerJdText(text) ==
  /\ analyzerJdText # text
  /\ analyzerJdText' = text
  /\ UNCHANGED <<analyzerAnalysis, analyzerAnalyzing, analyzerError, net, beyondAnalyzer>>

\* handleAnalyze up to its await; the Analyze JD button is disabled while
\* analyzing or while the text is blank
handleAnalyze ==
  /\ ~analyzerAnalyzing /\ trim(analyzerJdText) # ""
  /\ HasFreeSlot
  /\ analyzerAnalyzing' = TRUE
  /\ analyzerError' = null
  /\ net' = [net EXCEPT ![FreeSlot] = analyzerRequest(analyzerJdText)]
  /\ UNCHANGED <<analyzerJdText, analyzerAnalysis, beyondAnalyzer>>

\* handleAnalyze after its await, without the finally block when analyzeJD threw
handleAnalyzeDone_NoFinally(s) ==
  /\ net[s].owner = "analyzer" /\ net[s].pc \in {"ok", "err"}
  /\ IF net[s].pc = "ok"
     THEN /\ analyzerAnalysis' = "analysis"
          /\ analyzerAnalyzing' = FALSE
          /\ UNCHANGED analyzerError
     ELSE /\ analyzerError' = "Failed to analyze job description."
          /\ UNCHANGED <<analyzerAnalysis, analyzerAnalyzing>>
  /\ net' = [net EXCEPT ![s] = NoMsg]
  /\ UNCHANGED <<analyzerJdText, beyondAnalyzer>>

\* handleAnalyze after its await: the analysis, or the error; finally the
\* analyzing flag is cleared
handleAnalyzeDone(s) ==
  /\ net[s].owner = "analyzer" /\ net[s].pc \in {"ok", "err"}
  /\ IF net[s].pc = "ok"
     THEN analyzerAnalysis' = "analysis" /\ UNCHANGED analyzerError
     ELSE /\ analyzerError' = "Failed to analyze job description."
          /\ UNCHANGED analyzerAnalysis
  /\ analyzerAnalyzing' = FALSE
  /\ net' = [net EXCEPT ![s] = NoMsg]
  /\ UNCHANGED <<analyzerJdText, beyondAnalyzer>>

\* handleClear; the Clear button is disabled while analyzing
handleClear ==
  /\ ~analyzerAnalyzing
  /\ <<analyzerJdText, analyzerAnalysis, analyzerError>> # <<"", null, null>>
  /\ analyzerJdText' = ""
  /\ analyzerAnalysis' = null
  /\ analyzerError' = null
  /\ UNCHANGED <<analyzerAnalyzing, net, beyondAnalyzer>>

(***************************************************************************)
(* Workflow API: POST /api/analyze-jd (modelled from the written           *)
(* specification)                                                          *)
(***************************************************************************)
\* the analysis of the text, or a failure of the hosted analysis call
serveAnalyzeJd(s) ==
  /\ net[s].op = "analyze-jd" /\ net[s].pc = "sent"
  /\ \E outcome \in {"ok", "err"} :
       net' = [net EXCEPT ![s] = [@ EXCEPT !.pc = outcome]]
  /\ UNCHANGED <<analyzerVars, beyondAnalyzer>>

(***************************************************************************)
(* ResumeAnalyzerPage and ResumePage                                       *)
(***************************************************************************)
\* analyzeResume(file) of either page: POST /api/analyze-resume
analyzeResumeRequest(page, file) ==
  [op |-> "analyze-resume", pc |-> "sent", file |-> file, rid |-> 0, snap |-> {},
   owner |-> page, body |-> ""]

\* file.name.toLowerCase().match(/\.(pdf|docx|doc|txt)$/)
matchesExtension(file) == Len(file.name) > 1 /\ extensionOf(file) \in allowedExtensions

\* the checks of ResumeAnalyzerPage.handleFileSelect: the error, or null
resumeAnalyzerCheck(file) ==
  IF file.type \notin allowedTypes /\ ~matchesExtension(file)
  THEN "Please select a PDF, DOCX, DOC, or TXT file."
  ELSE IF file.size > maxSize THEN "File size must be less than 10MB." ELSE null

\* ResumeAnalyzerPage.handleFileSelect up to its await (reached from the drop
\* zone, which is rendered while no file is selected)
resumeAnalyzerFileSelect(file) ==
  /\ resumeAnalyzerFile = NoFile
  /\ IF resumeAnalyzerCheck(file) # null
     THEN /\ resumeAnalyzerError # resumeAnalyzerCheck(file)
          /\ resumeAnalyzerError' = resumeAnalyzerCheck(file)
          /\ UNCHANGED <<resumeAnalyzerFile, resumeAnalyzerAnalysis, resumeAnalyzerAnalyzing,
                         net>>
     ELSE /\ HasFreeSlot
          /\ resumeAnalyzerFile' = file
          /\ resumeAnalyzerError' = null
          /\ resumeAnalyzerAnalyzing' = TRUE
          /\ net' = [net EXCEPT ![FreeSlot] = analyzeResumeRequest("resumeAnalyzer", file)]
          /\ UNCHANGED resumeAnalyzerAnalysis
  /\ UNCHANGED <<resumePageVars, beyondPages>>

\* ResumeAnalyzerPage.handleFileSelect after its await: the analysis (kept as
\* the file it is the analysis of), or the error; finally the flag is cleared
resumeAnalyzerFileSelectDone(s) ==
  /\ net[s].owner = "resumeAnalyzer" /\ net[s].pc \in {"ok", "err"}
  /\ IF net[s].pc = "ok"
     THEN resumeAnalyzerAnalysis' = net[s].file /\ UNCHANGED resumeAnalyzerError
     ELSE /\ resumeAnalyzerError' = "HTTP error! status: 500"
          /\ UNCHANGED resumeAnalyzerAnalysis
  /\ resumeAnalyzerAnalyzing' = FALSE
  /\ net' = [net EXCEPT ![s] = NoMsg]
  /\ UNCHANGED <<resumeAnalyzerFile, resumePageVars, beyondPages>>

\* ResumeAnalyzerPage.handleClear (Upload Different File, rendered while a file
\* is selected)
resumeAnalyzerClear ==
  /\ resumeAnalyzerFile # NoFile
  /\ resumeAnalyzerFile' = NoFile
  /\ resumeAnalyzerAnalysis' = NoFile
  /\ resumeAnalyzerError' = null
  /\ UNCHANGED <<resumeAnalyzerAnalyzing, net, resumePageVars, beyondPages>>

\* what the Analysis Results card of ResumeAnalyzerPage shows
resumeAnalyzerShown ==
  IF resumeAnalyzerAnalyzing THEN "Analyzing your resume..."
  ELSE IF resumeAnalyzerAnalysis = NoFile THEN "Upload a resume to see the detailed analysis"
  ELSE "analysis"

\* the checks of ResumePage.handleFileSelect: the error, or null
resumePageCheck(file) ==
  IF file.type \notin allowedTypes THEN "Please upload a PDF, DOCX, DOC, or TXT file"
  ELSE IF file.size > maxSize THEN "File size must be less than 10MB" ELSE null

\* ResumePage.handleFileSelect (the drop zone and Choose File are always there)
resumePageFileSelect(file) ==
  /\ IF resumePageCheck(file) # null
     THEN /\ resumePageError' = resumePageCheck(file)
          /\ UNCHANGED resumePageFile
     ELSE /\ resumePageFile' = file
          /\ resumePageError' = null
  /\ <<resumePageFile, resumePageError>>' # <<resumePageFile, resumePageError>>
  /\ UNCHANGED <<resumePageAnalysis, resumePageAnalyzing, net, resumeAnalyzerVars,
                 beyondPages>>

\* ResumePage.handleAnalyze up to its await; the Analyze Resume button is
\* disabled without a file and while analyzing
resumePageAnalyze ==
  /\ resumePageFile # NoFile /\ ~resumePageAnalyzing
  /\ HasFreeSlot
  /\ resumePageAnalyzing' = TRUE
  /\ resumePageError' = null
  /\ net' = [net EXCEPT ![FreeSlot] = analyzeResumeRequest("resumePage", resumePageFile)]
  /\ UNCHANGED <<resumePageFile, resumePageAnalysis, resumeAnalyzerVars, beyondPages>>

\* ResumePage.handleAnalyze after its await
resumePageAnalyzeDone(s) ==
  /\ net[s].owner = "resumePage" /\ net[s].pc \in {"ok", "err"}
  /\ IF net[s].pc = "ok"
     THEN resumePageAnalysis' = net[s].file /\ UNCHANGED resumePageError
     ELSE /\ resumePageError' = "HTTP error! status: 500"
          /\ UNCHANGED resumePageAnalysis
  /\ resumePageAnalyzing' = FALSE
  /\ net' = [net EXCEPT ![s] = NoMsg]
  /\ UNCHANGED <<resumePageFile, resumeAnalyzerVars, beyondPages>>

\* ResumePage.handleClear, from Remove (rendered while a file is selected) or
\* from Clear (disabled while analyzing)
resumePageClear(button) ==
  /\ \/ button = "Remove" /\ resumePageFile # NoFile
     \/ button = "Clear" /\ ~resumePageAnalyzing
  /\ <<resumePageFile, resumePageAnalysis, resumePageError>> # <<NoFile, NoFile, null>>
  /\ resumePageFile' = NoFile
  /\ resumePageAnalysis' = NoFile
  /\ resumePageError' = null
  /\ UNCHANGED <<resumePageAnalyzing, net, resumeAnalyzerVars, beyondPages>>

\* what the Analysis Results card of ResumePage shows
resumePageShown ==
  IF resumePageError # null THEN "Analysis Failed"
  ELSE IF resumePageAnalysis = NoFile THEN "Upload a resume and click Analyze Resume"
  ELSE "analysis"

(***************************************************************************)
(* Workflow API: POST /api/analyze-resume (modelled from the written       *)
(* specification)                                                          *)
(***************************************************************************)
\* the analysis of the uploaded file, or a failure
serveAnalyzeResume(s) ==
  /\ net[s].op = "analyze-resume" /\ net[s].pc = "sent"
  /\ \E outcome \in {"ok", "err"} :
       net' = [net EXCEPT ![s] = [@ EXCEPT !.pc = outcome]]
  /\ UNCHANGED <<pageSide, beyondPages>>

(***************************************************************************)
(* Header (Sidebar.tsx) and UserOnboarding                                 *)
(***************************************************************************)
\* email values typed into the form
Emails == {"", " ", "u1@mail", "u2@mail"}

\* the Header's mount effect: currentUser is the stored user data, if any
headerMount ==
  /\ ~headerMounted
  /\ headerMounted' = TRUE
  /\ headerUser' = IF user_data # null THEN user_data ELSE headerUser
  /\ UNCHANGED <<user_data, onboardingEmail, onboardingLoading, onboardingError,
                 onboardingLog, current_user_id, net, beyondAccount>>

\* Header.handleLogout (its button is rendered while currentUser is set):
\* userStorage.clearCurrentUser, setCurrentUser(null), and the reload of the
\* page, which discards the state of its components and their pending calls
handleLogout ==
  /\ headerMounted /\ headerUser # null
  /\ current_user_id' = null
  /\ headerUser' = null
  /\ headerMounted' = FALSE
  /\ onboardingEmail' = ""
  /\ onboardingLoading' = FALSE
  /\ onboardingError' = null
  /\ net' = [s \in Slots |-> IF net[s].owner = "onboarding" THEN NoMsg ELSE net[s]]
  /\ UNCHANGED <<user_data, onboardingLog, beyondAccount>>

\* the pages render UserOnboarding while no current user id is known
onboardingShown == current_user_id = null /\ headerMounted

\* onChange of the email input (disabled while loading)
setEmail(email) ==
  /\ onboardingShown /\ ~onboardingLoading
  /\ onboardingEmail # email
  /\ onboardingEmail' = email
  /\ UNCHANGED <<user_data, headerUser, headerMounted, onboardingLoading, onboardingError,
                 onboardingLog, current_user_id, net, beyondAccount>>

\* userService.createUser / getUser: POST /api/users, GET /api/users/{id}
userRequest(op, text) ==
  [op |-> op, pc |-> "sent", file |-> NoFile, rid |-> 0, snap |-> {}, owner |-> "onboarding",
   body |-> text]

\* UserOnboarding.handleSubmit up to its first await (the submit button is
\* disabled while loading)
onboardingSubmit ==
  /\ onboardingShown /\ ~onboardingLoading
  /\ IF trim(onboardingEmail) = ""
     THEN /\ onboardingError # "Email is required"
          /\ onboardingError' = "Email is required"
          /\ UNCHANGED <<onboardingLoading, onboardingLog, net>>
     ELSE /\ HasFreeSlot
          /\ onboardingLoading' = TRUE
          /\ onboardingError' = null
          /\ onboardingLog' = NoCalls
          /\ net' = [net EXCEPT ![FreeSlot] = userRequest("createUser", trim(onboardingEmail))]
  /\ UNCHANGED <<user_data, headerUser, headerMounted, onboardingEmail, current_user_id,
                 beyondAccount>>

\* handleSubmit after createUser answered, were the user id stored at once
onboardingCreated_StoreEarly(s) ==
  /\ net[s].owner = "onboarding" /\ net[s].op = "createUser" /\ net[s].pc \in {"ok", "err"}
  /\ onboardingLog' = [onboardingLog EXCEPT !.createUser = net[s].pc]
  /\ IF net[s].pc = "ok"
     THEN /\ net' = [net EXCEPT ![s] = userRequest("getUser", net[s].body)]
          /\ current_user_id' = net[s].body
          /\ UNCHANGED <<onboardingLoading, onboardingError>>
     ELSE /\ net' = [net EXCEPT ![s] = NoMsg]
          /\ onboardingError' = "Failed to create user: 500"
          /\ onboardingLoading' = FALSE
          /\ UNCHANGED current_user_id
  /\ UNCHANGED <<user_data, headerUser, headerMounted, onboardingEmail, beyondAccount>>

\* handleSubmit after createUser answered: getUser is called for the user id
\* of the result, or the error is shown and finally the loading flag cleared
onboardingCreated(s) ==
  /\ net[s].owner = "onboarding" /\ net[s].op = "createUser" /\ net[s].pc \in {"ok", "err"}
  /\ onboardingLog' = [onboardingLog EXCEPT !.createUser = net[s].pc]
  /\ IF net[s].pc = "ok"
     THEN /\ net' = [net EXCEPT ![s] = userRequest("getUser", net[s].body)]
          /\ UNCHANGED <<onboardingLoading, onboardingError>>
     ELSE /\ net' = [net EXCEPT ![s] = NoMsg]
          /\ onboardingError' = "Failed to create user: 500"
          /\ onboardingLoading' = FALSE
  /\ UNCHANGED <<user_data, headerUser, headerMounted, onboardingEmail, current_user_id,
                 beyondAccount>>

\* handleSubmit after getUser answered: the user id and the user data are
\* stored and the parent notified (it then renders its page in place of the
\* form), or the error is shown; finally the loading flag is cleared
onboardingDone(s) ==
  /\ net[s].owner = "onboarding" /\ net[s].op = "getUser" /\ net[s].pc \in {"ok", "err"}
  /\ net' = [net EXCEPT ![s] = NoMsg]
  /\ IF net[s].pc = "ok"
     THEN /\ current_user_id' = net[s].body
          /\ user_data' = net[s].body
          /\ onboardingLog' = [onboardingLog EXCEPT !.getUser = "ok",
                 !.effects = <<"setCurrentUser", "setUserData", "onUserCreated">>]
          /\ onboardingEmail' = ""
          /\ UNCHANGED onboardingError
     ELSE /\ onboardingError' = "Failed to get user: 500"
          /\ onboardingLog' = [onboardingLog EXCEPT !.getUser = "err"]
          /\ UNCHANGED <<current_user_id, user_data, onboardingEmail>>
  /\ onboardingLoading' = FALSE
  /\ UNCHANGED <<headerUser, headerMounted, beyondAccount>>

(***************************************************************************)
(* Workflow API: users (modelled from the written specification)           *)
(***************************************************************************)
\* the user id of the account with this email (created on first submission)
userIdOf(email) == IF email = "u1@mail" THEN "u1" ELSE "u2"

\* POST /api/users: the id of the new or existing user, or a failure
serveCreateUser(s) ==
  /\ net[s].op = "createUser" /\ net[s].pc = "sent"
  /\ \/ net' = [net EXCEPT ![s] = [@ EXCEPT !.pc = "ok", !.body = userIdOf(net[s].body)]]
     \/ net' = [net EXCEPT ![s] = [@ EXCEPT !.pc = "err"]]
  /\ UNCHANGED <<accountVars, current_user_id, beyondAccount>>

\* GET /api/users/{id}: the user, or a failure
serveGetUser(s) ==
  /\ net[s].op = "getUser" /\ net[s].pc = "sent"
  /\ \E outcome \in {"ok", "err"} :
       net' = [net EXCEPT ![s] = [@ EXCEPT !.pc = outcome]]
  /\ UNCHANGED <<accountVars, current_user_id, beyondAccount>>

(***************************************************************************)
(* Local storage written from another page of the browser                  *)
(***************************************************************************)
\* userStorage.clearCurrentUser (Header.handleLogout in another tab)
clearCurrentUser ==
  /\ current_user_id # null
  /\ current_user_id' = null
  /\ UNCHANGED <<uploadVars, uploadedResumes, net, storeVars>>
  /\ UNCHANGED beyondResumes

\* userStorage.setCurrentUser (onboarding in another tab)
setCurrentUser(userId) ==
  /\ current_user_id = null
  /\ current_user_id' = userId
  /\ UNCHANGED <<uploadVars, uploadedResumes, net, storeVars>>
  /\ UNCHANGED beyondResumes

(***************************************************************************)
(* Specifications                                                          *)
(***************************************************************************)
\* the upload modal of one page against the workflow API
NextUpload ==
  \/ \E file \in Files : handleFileSelect(file)
  \/ handleUpload
  \/ progressTick
  \/ strayTick
  \/ \E s \in Slots : handleUploadOk(s)
  \/ \E s \in Slots : handleUploadFailed(s)
  \/ resetUpload
  \/ openUploadModal
  \/ onClose
  \/ handleUploadComplete
  \/ \E s \in Slots : serveUpload(s)
  \/ clearCurrentUser
  \/ setCurrentUser("u1")

SpecUpload == Init /\ [][NextUpload]_vars

\* two tabs of one user working on the resume cards
NextResumes ==
  \/ \E t \in Tabs : loadResumes(t)
  \/ \E t \in Tabs : tabUpload(t)
  \/ \E t \in Tabs, r \in ResumeIds : handleSetPrimary(t, r)
  \/ \E t \in Tabs, r \in ResumeIds : handleDelete(t, r)
  \/ \E s \in Slots : cardResponse(s)
  \/ \E s \in Slots : serveUpload(s)
  \/ \E s \in Slots : servePrimaryQuery(s)
  \/ \E s \in Slots : servePrimaryClear(s)
  \/ \E s \in Slots : servePrimarySet(s)
  \/ \E s \in Slots : serveDeleteBlob(s)
  \/ \E s \in Slots : serveDeleteRecord(s)

SpecResumes == Init /\ [][NextResumes]_vars

\* two tabs of one user deleting the resumes that the first one uploads
NextDelete ==
  \/ \E t \in Tabs : loadResumes(t)
  \/ tabUpload("tab1")
  \/ \E t \in Tabs, r \in ResumeIds : handleDelete(t, r)
  \/ \E s \in Slots : cardResponse(s)
  \/ \E s \in Slots : serveUpload(s)
  \/ \E s \in Slots : serveDeleteBlob(s)
  \/ \E s \in Slots : serveDeleteRecord(s)

SpecDelete == Init /\ [][NextDelete]_vars

\* the first job of the user is created
createFirstJob == nextJobId = 1 /\ createJobCall

\* the first resume of the user is uploaded
uploadFirstResume ==
  /\ nextId = cardResume /\ ~\E s \in Slots : net[s].op = "upload"
  /\ tabUpload("tab1")

\* the page of the first job (or JD file) while that job is created, and the
\* card of the first resume, downloaded from and deleted
NextFetch ==
  \/ \E jobId \in RouteIds : openJobDetail(jobId)
  \/ \E s \in Slots : fetchJobDetailsDone(s)
  \/ \E s \in Slots : serveJobDetails(s)
  \/ \E s \in Slots : droppedResponse(s)
  \/ createFirstJob
  \/ \E s \in Slots : jobResponse(s)
  \/ \E s \in Slots : serveCreateJob(s)
  \/ \E s \in Slots : serveAnalysisOk(s)
  \/ uploadFirstResume
  \/ \E s \in Slots : serveUpload(s)
  \/ handleDelete("tab1", cardResume)
  \/ \E s \in Slots : serveDeleteBlob(s)
  \/ \E s \in Slots : serveDeleteRecord(s)
  \/ \E s \in Slots : cardResponse(s)
  \/ handleDownload(cardResume)
  \/ \E s \in Slots : handleDownloadDone(s)
  \/ \E s \in Slots : serveResumeUrl(s)

SpecFetch == Init /\ [][NextFetch]_vars

\* the add-job page and the job endpoints
NextJobs ==
  \/ mountAddJobPage
  \/ \E text \in Texts : setJobDescription(text)
  \/ handleSubmit
  \/ \E s \in Slots : handleSubmitDone(s)
  \/ \E j \in JobIds : deleteJob(j)
  \/ \E ids \in SUBSET JobIds : deleteMultipleJobs(ids)
  \/ \E j \in JobIds : restoreJob(j)
  \/ \E s \in Slots : jobResponse(s)
  \/ \E s \in Slots : serveCreateJob(s)
  \/ \E s \in Slots : serveAnalysisOk(s)
  \/ \E s \in Slots : serveAnalysisFailed(s)
  \/ \E s \in Slots : serveAnalysisMalformed(s)
  \/ \E s \in Slots : serveDeleteJob(s)
  \/ \E s \in Slots : serveDeleteMultiple(s)
  \/ \E s \in Slots : serveRestoreJob(s)

SpecJobs == Init /\ [][NextJobs]_vars

\* the dashboard, with the user id in local storage set and cleared elsewhere
NextDashboard ==
  \/ mountDashboard
  \/ tryAgain
  \/ \E s1, s2 \in Slots : loadDashboardDataOk(s1, s2)
  \/ \E s \in Slots : loadDashboardDataFailed(s)
  \/ \E s \in Slots : droppedResponse(s)
  \/ \E s \in Slots : listJDFilesOk(s)
  \/ \E s \in Slots : listJDFilesFailed(s)
  \/ \E s \in Slots : serveUserDashboard(s)
  \/ \E s \in Slots : serveUserJobs(s)
  \/ \E s \in Slots : serveListJDFiles(s)
  \/ \E s \in Slots : serveDashboardFailed(s)
  \/ clearCurrentUser
  \/ setCurrentUser("u1")

SpecDashboard == Init /\ [][NextDashboard]_vars

\* the resume the wizard is given
wizardResume == [type |-> "application/pdf", name |-> <<"cv", "PDF">>, size |-> maxSize]

\* Back from step 3 to the resume step, to analyze again
backToResumeStep == currentStep = 3 /\ handlePrevious

\* the job of the wizard is deleted, and restored, from the dashboard
deleteWizardJob == current_job_id \in JobIds /\ deleteJob(current_job_id)
restoreWizardJob == current_job_id \in JobIds /\ restoreJob(current_job_id)

\* the user of the resumes page waits for an action to end before the next one
resumeCallPending == \E s \in Slots : net[s].owner = "tab1"

\* up to two resumes are uploaded, so that one can be made the primary
uploadTwoResumes == nextId <= 2 /\ ~resumeCallPending /\ tabUpload("tab1")

\* a resume of the list is made the primary one
setPrimaryResume(r) == ~resumeCallPending /\ handleSetPrimary("tab1", r)

\* the wizard analyzing a resume against its job, again after going back, while
\* the job is deleted and restored and the primary resume is set
NextAnalyses ==
  \/ setJdText("JD")
  \/ setResumeFile(wizardResume)
  \/ backToResumeStep
  \/ analyzeJD
  \/ \E s \in Slots : analyzeJDDone(s)
  \/ analyzeResume
  \/ \E s \in Slots : analyzeResumeDone(s)
  \/ \E s \in Slots : serveWizardCreateJob(s)
  \/ \E s \in Slots : serveWizardAnalyzeResume(s)
  \/ \E s \in Slots : serveWizardAnalysisStored(s)
  \/ deleteWizardJob
  \/ restoreWizardJob
  \/ \E s \in Slots : jobResponse(s)
  \/ \E s \in Slots : serveDeleteJob(s)
  \/ \E s \in Slots : serveRestoreJob(s)
  \/ uploadTwoResumes
  \/ \E s \in Slots : serveUpload(s)
  \/ \E r \in ResumeIds : setPrimaryResume(r)
  \/ \E s \in Slots : cardResponse(s)
  \/ \E s \in Slots : servePrimaryQuery(s)
  \/ \E s \in Slots : servePrimaryClear(s)
  \/ \E s \in Slots : servePrimarySet(s)

SpecAnalyses == Init /\ [][NextAnalyses]_vars

\* the add-job page and the JD analyzer page, open side by side
NextAnalyze ==
  \/ mountAddJobPage
  \/ \E text \in Texts : setJobDescription(text)
  \/ handleSubmit
  \/ \E s \in Slots : handleSubmitDone(s)
  \/ \E s \in Slots : serveCreateJob(s)
  \/ \E s \in Slots : serveAnalysisOk(s)
  \/ \E s \in Slots : serveAnalysisFailed(s)
  \/ \E s \in Slots : serveAnalysisMalformed(s)
  \/ \E text \in Texts : setAnalyzerJdText(text)
  \/ handleAnalyze
  \/ \E s \in Slots : handleAnalyzeDone(s)
  \/ handleClear
  \/ \E s \in Slots : serveAnalyzeJd(s)

SpecAnalyze == Init /\ [][NextAnalyze]_vars

\* the dashboard of the signed-in user, whose jobs are created meanwhile, and
\* its delete mode
NextDeleteMode ==
  \/ mountDashboard
  \/ tryAgain
  \/ \E s1, s2 \in Slots : loadDashboardDataOk(s1, s2)
  \/ \E s \in Slots : serveUserDashboard(s)
  \/ \E s \in Slots : serveUserJobs(s)
  \/ createJobCall
  \/ \E s \in Slots : jobResponse(s)
  \/ \E s \in Slots : serveCreateJob(s)
  \/ \E s \in Slots : serveAnalysisOk(s)
  \/ enterDeleteMode
  \/ \E j \in JobIds : handleJobSelection(j)
  \/ handleSelectAll
  \/ cancelDeleteMode
  \/ handleDeleteSelected
  \/ \E s \in Slots : handleDeleteSelectedDone(s)
  \/ \E s \in Slots : serveDeleteMultiple(s)

SpecDeleteMode == Init /\ [][NextDeleteMode]_vars

\* the create-resume wizard and its endpoints
NextWizard ==
  \/ \E text \in Texts : setJdText(text)
  \/ \E file \in Files \cup {NoFile} : setResumeFile(file)
  \/ \E approach \in {"complete", "stepByStep"} : setRewriteApproach(approach)
  \/ handleNext
  \/ handlePrevious
  \/ analyzeJD
  \/ \E s \in Slots : analyzeJDDone(s)
  \/ analyzeResume
  \/ \E s \in Slots : analyzeResumeDone(s)
  \/ \E s \in Slots : serveWizardCreateJob(s)
  \/ \E s \in Slots : serveWizardAnalyzeResume(s)
  \/ \E s \in Slots : serveWizardAnalysisStored(s)
  \/ \E s \in Slots : serveWizardFailed(s)

SpecWizard == Init /\ [][NextWizard]_vars

\* one resume card with its preview modal, on the page that uploaded the resume
NextPreview ==
  \/ tabUpload("tab1")
  \/ \E s \in Slots : serveUpload(s)
  \/ \E s \in Slots : cardResponse(s)
  \/ onMouseEnter
  \/ onMouseLeave
  \/ handleView
  \/ modalOnClose
  \/ modalTryAgain
  \/ \E s \in Slots : thumbnailPreviewOk(s)
  \/ \E s \in Slots : thumbnailPreviewFailed(s)
  \/ \E s \in Slots : thumbnailFallbackOk(s)
  \/ \E s \in Slots : thumbnailFallbackFailed(s)
  \/ \E s \in Slots : loadPreviewDone(s)
  \/ \E s \in Slots : serveResumeUrl(s)

SpecPreview == Init /\ [][NextPreview]_vars

(***************************************************************************)
(* Claims about the resume upload                                          *)
(***************************************************************************)
\* a file the upload must reject: over 10MB, or neither its MIME type nor its
\* extension is on the component's lists
Rejectable(f) ==
  \/ f.size > 10 * 1024 * 1024
  \/ /\ f.type \notin allowedTypes
     /\ toLowerCase(f.name[Len(f.name)]) \notin allowedExtensions

UploadsOnWire == {s \in Slots : net[s].op = "upload"}
UploadsAnsweredOk == {s \in Slots : net[s].op = "upload" /\ net[s].pc = "ok"}

\* C1: an oversized or disallowed-type file is never selected for upload, no
\* upload request carries one, and no Resume record is created for one
C1_NoInvalidUpload ==
  /\ selectedFile # NoFile => ~Rejectable(selectedFile)
  /\ \A s \in UploadsOnWire : ~Rejectable(net[s].file)
  /\ \A f \in storedFiles : ~Rejectable(f)

\* an oversized file was offered and rejected after an earlier upload went through
C1_Witness ==
  /\ uploadStatus = "error" /\ errorMessage = "File too large"
  /\ selectedFile = NoFile
  /\ records # {}

C3_ExclusiveTransfer ==
  [][\A s \in Slots :
       (/\ net[s].op = "setPrimary" /\ net[s].pc = "set" /\ net[s].snap # {}
        /\ net'[s].pc = "ok")
       => primary' = {net[s].rid}]_vars

\* C4: at most one uploaded resume of the user carries the primary flag
C4_AtMostOnePrimary == Cardinality(primary) <= 1

C8_AnalyzedOnlyByNormalizer ==
  [][\A j \in JobIds :
       /\ jobs'[j].status = "analyzed" => normalizerRuns'[j] = 1
       /\ normalizerRuns'[j] <= 1
       /\ jobs'[j].analysis # jobs[j].analysis =>
            jobs[j].analysis = "" /\ normalizerRuns'[j] = normalizerRuns[j] + 1
       /\ jobs'[j].status # jobs[j].status =>
            \/ jobs[j] = NoJob /\ jobs'[j].status = "new"
            \/ /\ jobs[j].status = "new" /\ jobs'[j].status = "analyzed"
               /\ normalizerRuns'[j] = normalizerRuns[j] + 1]_vars

\* a job that was never analyzed was deleted and restored and is still new, next
\* to a job the Normalizer has analyzed
C8_Witness ==
  \E s \in Slots :
    /\ net[s].op = "restoreJob" /\ net[s].pc = "ok"
    /\ jobs[net[s].rid].status = "new" /\ normalizerRuns[net[s].rid] = 0
    /\ \E j \in JobIds : jobs[j].status = "analyzed" /\ normalizerRuns[j] = 1

\* C6: an analysis response that lacks a required field (the job title) makes
\* normalization raise: it never becomes a job of the list, with or without a
\* default in place of the missing title.
C6_MalformedRaises ==
  dashboardData = "fallback" =>
    \A i \in DOMAIN files :
      files[i].job_title = undefined => i \notin DOMAIN dashboardJobs

\* C9: input that fails validation is rejected before any request: no request
\* on the wire carries a file of a disallowed type or over the size limit, or a
\* blank text.
C9_NoRequestForInvalidInput ==
  \A s \in Slots :
    /\ net[s].op = "analyzeResumeForWizard" => ~Rejectable(net[s].file)
    /\ net[s].op = "createJobForWizard" => trim(net[s].body) # ""

CardRequests == {s \in Slots : net[s].owner = "card"}
ModalRequests == {s \in Slots : net[s].owner = "modal"}

DeletedResumes == {r \in ResumeIds : r < nextId /\ r \notin records}

C20_LazyThumbnail ==
  [][/\ (~sinceAction.acted => CardRequests = {})'
     /\ (Cardinality(CardRequests) <= 1)'
     /\ (thumbnailLoaded => CardRequests = {})'
     /\ \A s \in Slots :
          /\ net'[s].owner = "card" /\ net'[s] # net[s] /\ net'[s].pc = "sent" =>
               /\ ~thumbnailLoaded
               /\ net'[s].op = "getResumeDownloadUrl" =>
                    /\ net[s].owner = "card" /\ net[s].op = "getResumePreviewUrl"
                    /\ net[s].pc = "err"]_vars

\* the preview request failed, the fallback delivered the download URL, and the
\* hovered card shows it with nothing left in flight
C20_Witness ==
  /\ thumbnailLoaded /\ thumbnailUrl = "download_url"
  /\ isHovered /\ sinceAction.acted
  /\ CardRequests = {}


(***************************************************************************)
(* C12: fetches for ids that do not exist                                  *)
(***************************************************************************)
\* the request asks for a job or a resume that has no record
Missing(msg) ==
  \/ msg.op = "getJobDetails" /\ ~JobFound(msg)
  \/ msg.op \in {"getResumePreviewUrl", "getResumeDownloadUrl"} /\ msg.rid \notin records

\* the requests the claim is about
Fetches == {"getJobDetails", "getResumePreviewUrl", "getResumeDownloadUrl"}

C18_JdIdFetchedFromFileApi ==
  /\ \A s \in Slots :
       net[s].op = "getJobDetails" /\ net[s].owner = "detail" /\ startsWithJd(detailJobId) =>
         net[s].body = getJobDetailsFirst(detailJobId).body
  /\ startsWithJd(detailJobId) => detailView # "Job Not Found"


(***************************************************************************)
(* C17: the dashboard after a delete of the selected jobs succeeded        *)
(***************************************************************************)
\* C17: when the delete-multiple request of handleDeleteSelected is answered
\* with success, the handler refreshes the jobs list, empties the selection,
\* leaves delete mode and shows no error
C17_AfterDeleteSelected ==
  [][\A s \in Slots :
       net[s].owner = "deleteSelected" /\ net[s].pc = "ok" /\ net'[s] = NoMsg =>
         /\ selectedJobs' = {}
         /\ ~showDeleteMode'
         /\ dashboardError' = null
         /\ \/ \E t \in Slots : net'[t].op = "getUserJobs" /\ net'[t].pc = "sent"
            \/ listedJobIds' \cap net[s].snap = {}]_vars

(***************************************************************************)
(* C19: the dashboard without a current user                               *)
(***************************************************************************)
\* C19: with no current user id and a JD-file listing that succeeded, the
\* dashboard shows the JD files as its job list once loading has finished
C19_FallbackListShown ==
  dashboardMounted /\ dashboardUserId = null /\ dashboardData = "fallback"
    /\ ~dashboardLoading
    => dashboardView = "My Jobs"


(***************************************************************************)
(* C16: one request per add-job or analyze action                          *)
(***************************************************************************)
\* the requests of the add-job form and of the JD analyzer that are not yet
\* consumed by their handler
AddJobRequests == {s \in Slots : net[s].owner = "addJob"}
AnalyzerRequests == {s \in Slots : net[s].owner = "analyzer"}

C13_BackupBestEffort ==
  /\ \A j \in JobIds :
       normalizerRuns[j] > 0 => jobs[j].status = "analyzed" /\ jobs[j].analysis = "analysis"
  /\ \A s \in Slots :
       net[s].op = "createJob" /\ net[s].pc = "ok" /\ net[s].rid \notin backups
         /\ normalizerRuns[net[s].rid] > 0
         => net[s].body = "analysis"
  /\ submitLog.kind = "analysis" => jobs[submitLog.job_id].analysis = "analysis"

\* the page was told of the analysis of a job whose backup write failed
C13_Witness ==
  /\ submitLog.kind = "analysis"
  /\ submitLog.job_id \notin backups
  /\ jobs[submitLog.job_id].status = "analyzed"
  /\ analysisResult.jd_analysis_data = "analysis"


(***************************************************************************)
(* C14, C15: Analysis records                                              *)
(***************************************************************************)
\* C14: no step changes or removes an Analysis record that exists, whatever
\* the step is (analysis, job delete or restore, set primary); an analysis that
\* succeeds, also a repeated one for the same job, adds one record, which is
\* the latest
C14_AnalysisImmutable ==
  [][/\ Len(analyses') >= Len(analyses)
     /\ \A i \in DOMAIN analyses : analyses'[i] = analyses[i]
     /\ \A s \in Slots :
          net[s].op = "analyzeResumeForWizard" /\ net[s].pc = "analyzing"
            /\ net'[s].pc = "ok" =>
              /\ Len(analyses') = Len(analyses) + 1
              /\ analyses'[Len(analyses')].job = net[s].rid]_vars

\* the job was analyzed against twice and is deleted now: the first record
\* is there as it was created, the second is the latest
C14_Witness ==
  /\ Len(analyses) = 2
  /\ analyses[1].job = analyses[2].job
  /\ analyses[1].timestamp = 1 /\ analyses[2].timestamp = 2
  /\ jobs[analyses[1].job].deleted
  /\ primary # {}

C28_SelectionWithinList ==
  /\ selectedJobs \subseteq listedJobIds
  /\ ~showDeleteMode => selectedJobs = {}

\* the resume analyzer page and the resume page, open side by side
NextResumeAnalysis ==
  \/ \E file \in Files : resumeAnalyzerFileSelect(file)
  \/ \E s \in Slots : resumeAnalyzerFileSelectDone(s)
  \/ resumeAnalyzerClear
  \/ \E file \in Files : resumePageFileSelect(file)
  \/ resumePageAnalyze
  \/ \E s \in Slots : resumePageAnalyzeDone(s)
  \/ \E button \in {"Remove", "Clear"} : resumePageClear(button)
  \/ \E s \in Slots : serveAnalyzeResume(s)

SpecResumeAnalysis == Init /\ [][NextResumeAnalysis]_vars

\* C21: whenever an analysis is displayed on a resume analyzer page, a file is
\* selected there and the analysis is the one made of that file
C21_AnalysisOfSelectedFile ==
  /\ resumeAnalyzerShown = "analysis" =>
       resumeAnalyzerFile # NoFile /\ resumeAnalyzerAnalysis = resumeAnalyzerFile
  /\ resumePageShown = "analysis" =>
       resumePageFile # NoFile /\ resumePageAnalysis = resumePageFile

\* the wizard, with the wizard of a second tab of the same browser creating
\* its own jobs
NextSessions ==
  \/ setJdText("JD")
  \/ setResumeFile(wizardResume)
  \/ handlePrevious
  \/ analyzeJD
  \/ \E s \in Slots : analyzeJDDone(s)
  \/ analyzeResume
  \/ \E s \in Slots : analyzeResumeDone(s)
  \/ otherSessionAnalyzeJD
  \/ \E s \in Slots : otherSessionAnalyzeJDDone(s)
  \/ \E s \in Slots : serveWizardCreateJob(s)
  \/ \E s \in Slots : serveWizardAnalyzeResume(s)
  \/ \E s \in Slots : serveWizardAnalysisStored(s)
  \/ \E s \in Slots : serveWizardFailed(s)

SpecSessions == Init /\ [][NextSessions]_vars

\* C22: a resume-analysis request of the wizard carries the job id that the
\* job creation of the same wizard session returned
C22_JobIdOfThisSession ==
  \A s \in Slots :
    net[s].owner = "wizard" /\ net[s].op = "analyzeResumeForWizard" =>
      net[s].rid = sessionJobId

\* the header and the onboarding form of one page, over logouts and sign-ups
NextAccount ==
  \/ headerMount
  \/ handleLogout
  \/ \E email \in Emails : setEmail(email)
  \/ onboardingSubmit
  \/ \E s \in Slots : onboardingCreated(s)
  \/ \E s \in Slots : onboardingDone(s)
  \/ \E s \in Slots : serveCreateUser(s)
  \/ \E s \in Slots : serveGetUser(s)

SpecAccount == Init /\ [][NextAccount]_vars

\* C23: with no current user id stored, no user data is stored either, and
\* the header shows no user profile
C23_NoUserNoData ==
  current_user_id = null =>
    /\ user_data = null
    /\ headerMounted => headerUser = null

\* the local storage keys of the session
sessionStorage == <<current_user_id, user_data>>

NextSteps ==
  \/ setJdText("JD")
  \/ setResumeFile(wizardResume)
  \/ \E approach \in {"complete", "stepByStep"} : setRewriteApproach(approach)
  \/ handleNext
  \/ handlePrevious
  \/ analyzeJD
  \/ \E s \in Slots : analyzeJDDone(s)
  \/ analyzeResume
  \/ \E s \in Slots : analyzeResumeDone(s)
  \/ \E s \in Slots : serveWizardCreateJob(s)
  \/ \E s \in Slots : serveWizardAnalyzeResume(s)
  \/ \E s \in Slots : serveWizardAnalysisStored(s)
  \/ \E s \in Slots : serveWizardFailed(s)

SpecSteps == Init /\ [][NextSteps]_vars

\* a call of the wizard that failed is handled in this step
FailureHandled ==
  \E s \in Slots : net[s].owner = "wizard" /\ net[s].pc = "err" /\ net'[s] = NoMsg

C26_ProgressMatchesStatus ==
  /\ uploadStatus = "idle" => uploadProgress = 0
  /\ uploadStatus = "uploading" => uploadProgress <= 90
  /\ uploadProgress = 100 => uploadStatus = "success"

\* the files offered to the modal here: a PDF of the largest accepted size and
\* one over the limit
OfferedFiles == {file \in Files : file.type = "application/pdf" /\ file.name = <<"cv", "PDF">>}

\* the upload modal of the page, its uploads and their completion callbacks
NextCompletion ==
  \/ \E file \in OfferedFiles : handleFileSelect(file)
  \/ handleUpload
  \/ \E s \in Slots : handleUploadOk(s)
  \/ \E s \in Slots : handleUploadFailed(s)
  \/ resetUpload
  \/ openUploadModal
  \/ onClose
  \/ handleUploadComplete
  \/ \E s \in Slots : serveUpload(s)
  \/ clearCurrentUser
  \/ setCurrentUser("u1")

\* a timeout that was set fires: the callback of every successful upload runs
SpecCompletion == Init /\ [][NextCompletion]_vars /\ WF_vars(handleUploadComplete)

====
